---- MODULE Spec2Model ----
(***************************************************************************)
(* The GlobalISel legalizer's worklist engine                              *)
(* (llvm/lib/CodeGen/GlobalISel/Legalizer.cpp, Legalizer::                 *)
(* runOnMachineFunction) as a state machine.                               *)
(*                                                                         *)
(* An instruction is an id.  Its fields are its state (free: not yet       *)
(* built, live: attached to a block, erased), its opcode class (kind), the *)
(* instructions defining the virtual registers it uses (ops), whether it   *)
(* has side effects (se) and its type signature (sig), which the rule      *)
(* table maps to a LegalizeAction.  The function lists its live            *)
(* instructions in increasing id order.                                    *)
(***************************************************************************)
EXTENDS Integers, Sequences, FiniteSets, TLC

\* Bounds of the model.
MaxInst == 4        \* instruction ids: the seeded ones and those built later
MaxInit == 2        \* instructions of the function at entry
MaxBlocks == 2      \* basic blocks a function can come to hold

Ids == 1..MaxInst

\* Opcode classes: G a pre-isel generic opcode that is no artifact (COPY
\* is handled like one), ART one of the artifact opcodes, TGT a target
\* specific opcode.
Kinds == {"G", "ART", "TGT"}
Sigs == {"s8", "s16"}
\* The type signature of the non-artifact opcode that an artifact is rewritten
\* to in place (G_BUILD_VECTOR_TRUNC): the rule table has its own entry for it.
TruncSig == "trunc"
AllSigs == Sigs \union {TruncSig}
Actions == {"Legal", "WidenScalar", "NarrowScalar", "Lower", "Unsupported"}

VARIABLES
  st,            \* [Ids -> {"free", "live", "erased"}]
  kind,          \* [Ids -> Kinds]
  ops,           \* [Ids -> SUBSET Ids]: definers of the registers used
  se,            \* [Ids -> BOOLEAN]: has side effects
  sig,           \* [Ids -> AllSigs]
  table,         \* the rule table: [AllSigs -> Actions]
  blocks,        \* MF.size()
  NumBlocks,     \* MF.size() at entry
  InstList,      \* the real worklist
  ArtifactList,  \* the artifact worklist
  RetryList,     \* deferred artifacts
  NumArtifacts,  \* ArtifactList.size() when the round began
  Changed,       \* the pass's return value when it ends in Done
  pc,            \* "InstLoop", "ArtLoop", "Done", "Failed"; "Idle" outside a run
  reported,      \* the instruction the failure was reported on (a set)
  ev,            \* the last step: what was popped and what happened to it
  newArts,       \* artifacts built since the round began
  pushed,        \* artifacts that the artifact loop put on the real list
  calc           \* a helper algorithm run on its own: its inputs and results

vars == <<st, kind, ops, se, sig, table, blocks, NumBlocks, InstList,
          ArtifactList, RetryList, NumArtifacts, Changed, pc, reported, ev,
          newArts, pushed, calc>>

graph == <<st, kind, ops, se, sig>>

----------------------------------------------------------------------------
\* GISelWorkList: an insertion-ordered list without duplicates, popped from
\* the back.

InList(l, x) == \E k \in 1..Len(l) : l[k] = x

Members(l) == {l[k] : k \in 1..Len(l)}

insert(l, x) == IF InList(l, x) THEN l ELSE Append(l, x)

remove(l, x) == SelectSeq(l, LAMBDA y : y # x)

Back(l) == l[Len(l)]

PopBack(l) == SubSeq(l, 1, Len(l) - 1)

MinOf(S) == CHOOSE x \in S : \A y \in S : x <= y

----------------------------------------------------------------------------
\* Opcode predicates.

\* Mutant: every generic opcode counts as an artifact.
isArtifactOrGeneric(k) == k \in {"ART", "G"}

isArtifact(k) == k = "ART"

\* Mutant: target-specific opcodes are recorded as well.
isAnyOpcode(k) == k \in {"G", "ART", "TGT"}

isPreISelGenericOpcodeOrCopy(k) == k \in {"G", "ART"}

\* LegalizerWorkListManager.  wl is the pair of worklists, kd the opcode
\* classes at the time of the call.

\* Mutant: an artifact is put on the real list as well.
createdOrChangedInstrBoth(wl, MI, kd) ==
  IF isPreISelGenericOpcodeOrCopy(kd[MI])
  THEN [I |-> insert(wl.I, MI),
        A |-> IF isArtifact(kd[MI]) THEN insert(wl.A, MI) ELSE wl.A]
  ELSE wl

createdOrChangedInstr(wl, MI, kd) ==
  IF isPreISelGenericOpcodeOrCopy(kd[MI])
  THEN IF isArtifact(kd[MI])
       THEN [wl EXCEPT !.A = insert(@, MI)]
       ELSE [wl EXCEPT !.I = insert(@, MI)]
  ELSE wl

RECURSIVE InsertDefs(_, _, _)
InsertDefs(wl, S, kd) ==
  IF S = {} THEN wl
  ELSE LET d == MinOf(S)
       IN InsertDefs(createdOrChangedInstr(wl, d, kd), S \ {d}, kd)

\* Mutant: the definers of the operands are not revisited.
maybeRemovingUsesSkipped(wl, MI, kd, op) == wl

\* The operands of MI are walked in order; every one that is a virtual
\* register with a defining instruction re-enqueues that instruction.
maybeRemovingUses(wl, MI, kd, op) == InsertDefs(wl, op[MI], kd)

\* Mutant: a built instruction goes to the bottom of its list.
createdInstrFront(wl, MI, kd) ==
  IF isPreISelGenericOpcodeOrCopy(kd[MI])
  THEN IF isArtifact(kd[MI])
       THEN [wl EXCEPT !.A = IF InList(@, MI) THEN @ ELSE <<MI>> \o @]
       ELSE [wl EXCEPT !.I = IF InList(@, MI) THEN @ ELSE <<MI>> \o @]
  ELSE wl

createdInstr(wl, MI, kd) == createdOrChangedInstr(wl, MI, kd)

\* Mutant: the erased instruction stays on the lists.
erasingInstrKept(wl, MI, kd, op) == maybeRemovingUses(wl, MI, kd, op)

erasingInstr(wl, MI, kd, op) ==
  LET w == maybeRemovingUses(wl, MI, kd, op)
  IN [I |-> remove(w.I, MI), A |-> remove(w.A, MI)]

changingInstr(wl, MI, kd, op) == maybeRemovingUses(wl, MI, kd, op)

\* Mutant: a changed instruction is not revisited.
changedInstrDropped(wl, MI, kd) == wl

changedInstr(wl, MI, kd) == createdOrChangedInstr(wl, MI, kd)

----------------------------------------------------------------------------
Live == {i \in Ids : st[i] = "live"}

Users(i) == {j \in Live : i \in ops[j]}

\* An instruction is trivially dead when it has no side effects and no
\* instruction uses the register it defines.
isTriviallyDead(MI) == ~se[MI] /\ Users(MI) = {}

\* The function at entry: n generic instructions, each using registers
\* defined earlier, and then the block's terminator, a target instruction
\* with side effects that may use any of them.  The two type signatures are
\* interchangeable (swap s8 with s16 and WidenScalar with NarrowScalar), so
\* the first instruction's is called s8.
Desc(i) ==
  {d \in [kind : {"G", "ART"}, ops : SUBSET (1..(i - 1)), se : BOOLEAN,
          sig : Sigs] : d.kind = "ART" => ~d.se}

RECURSIVE Functions(_)
Functions(n) ==
  IF n = 0 THEN {<<>>}
  ELSE {Append(f, d) : f \in Functions(n - 1), d \in Desc(n)}

\* A rule table never widens the widest type nor narrows the narrowest, and
\* the rewritten opcode is not rewritten in place again.
Tables ==
  {t \in [AllSigs -> Actions] :
     /\ t["s8"] # "NarrowScalar" /\ t["s16"] # "WidenScalar"
     /\ t[TruncSig] \notin {"WidenScalar", "NarrowScalar"}}

\* Mutant: the instructions of a block are scanned bottom-up.
SeedBottomUp(f, k) ==
  LET s == SelectSeq([i \in 1..Len(f) |-> i], LAMBDA i : f[i].kind = k)
  IN [i \in 1..Len(s) |-> s[Len(s) + 1 - i]]

\* The scan: the instructions of opcode class k in the order of the function.
Seed(f, k) == SelectSeq([i \in 1..Len(f) |-> i], LAMBDA i : f[i].kind = k)

\* No helper algorithm is run on its own while the engine runs.
NoCalc == [test |-> "none"]

Init ==
  \E n \in 1..MaxInit, t \in Tables :
    \E f \in Functions(n), ret \in SUBSET (1..n) :
      /\ n < MaxInst
      /\ f[1].sig = "s8"
      /\ st = [i \in Ids |-> IF i <= n + 1 THEN "live" ELSE "free"]
      /\ kind = [i \in Ids |-> IF i <= n THEN f[i].kind
                               ELSE IF i = n + 1 THEN "TGT" ELSE "G"]
      /\ ops = [i \in Ids |-> IF i <= n THEN f[i].ops
                              ELSE IF i = n + 1 THEN ret ELSE {}]
      /\ se = [i \in Ids |-> IF i <= n THEN f[i].se ELSE i = n + 1]
      /\ sig = [i \in Ids |-> IF i <= n THEN f[i].sig ELSE "s8"]
      /\ table = t
      /\ blocks = 1
      /\ NumBlocks = 1
      /\ InstList = Seed(f, "G")
      /\ ArtifactList = Seed(f, "ART")
      /\ RetryList = <<>>
      /\ NumArtifacts = Len(Seed(f, "ART"))
      /\ Changed = FALSE
      /\ pc = "InstLoop"
      /\ reported = {}
      /\ ev = [a |-> "init", mi |-> {}, k |-> "G"]
      /\ newArts = {}
      /\ pushed = {}
      /\ calc = NoCalc

----------------------------------------------------------------------------
\* Steps of the engine.  Assertions are compiled out; what they assert is
\* stated with the properties below.

Lists == [I |-> InstList, A |-> ArtifactList]

FreeIds == {i \in Ids : st[i] = "free"}

Other(s) == IF s = "s8" THEN "s16" ELSE "s8"

\* Every live user of instruction from uses the instructions of to instead.
Rewire(op, from, to) ==
  [j \in Ids |-> IF st[j] = "live" /\ from \in op[j]
                 THEN (op[j] \ {from}) \union to ELSE op[j]]

Event(a, MI) == [a |-> a, mi |-> {MI}, k |-> kind[MI]]

\* Mutant: the instruction leaves its block unannounced.
RemoveDeadInstFromListsSilent(wl, DeadMI, kd, op) == wl

\* RemoveDeadInstFromLists: the observers hear of the erasure, then the
\* instruction leaves its block.
RemoveDeadInstFromLists(wl, DeadMI, kd, op) == erasingInstr(wl, DeadMI, kd, op)

\* Mutant: the test forgets the side effects.
DeadPathUnused(MI) == Users(MI) = {}

\* The test of the dead-instruction path of both drain loops.
DeadPath(MI) == isTriviallyDead(MI)

\* The rule table's verdict on an instruction.
getAction(MI) == table[sig[MI]]

\* Line 239-247: a trivially dead instruction popped from the real list.
InstDead ==
  /\ pc = "InstLoop" /\ InstList # <<>>
  /\ LET MI == Back(InstList)
         wl == RemoveDeadInstFromLists([Lists EXCEPT !.I = PopBack(@)],
                                       MI, kind, ops)
     IN /\ DeadPath(MI)
        /\ InstList' = wl.I
        /\ ArtifactList' = wl.A
        /\ st' = [st EXCEPT ![MI] = "erased"]
        /\ ev' = Event("InstDead", MI)
  /\ UNCHANGED <<kind, ops, se, sig, table, blocks, NumBlocks, RetryList,
                 NumArtifacts, Changed, pc, reported, newArts, pushed>>
  /\ UNCHANGED calc

\* Mutant: every step that is no failure counts as a change.
InstAlreadyLegalCounted ==
  /\ pc = "InstLoop" /\ InstList # <<>>
  /\ LET MI == Back(InstList)
     IN /\ ~DeadPath(MI)
        /\ getAction(MI) = "Legal"
        /\ InstList' = PopBack(InstList)
        /\ ev' = Event("AlreadyLegal", MI)
  /\ Changed' = TRUE
  /\ UNCHANGED <<graph, table, blocks, NumBlocks, ArtifactList, RetryList,
                 NumArtifacts, pc, reported, newArts, pushed>>
  /\ UNCHANGED calc

\* Line 250, 264-265: legalizeInstrStep returns AlreadyLegal.
InstAlreadyLegal ==
  /\ pc = "InstLoop" /\ InstList # <<>>
  /\ LET MI == Back(InstList)
     IN /\ ~DeadPath(MI)
        /\ getAction(MI) = "Legal"
        /\ InstList' = PopBack(InstList)
        /\ ev' = Event("AlreadyLegal", MI)
  /\ UNCHANGED <<graph, table, blocks, NumBlocks, ArtifactList, RetryList,
                 NumArtifacts, Changed, pc, reported, newArts, pushed>>
  /\ UNCHANGED calc

\* legalizeInstrStep finds no transformation: the table says Unsupported,
\* or the expansion cannot be built.
Unable(MI) ==
  \/ getAction(MI) = "Unsupported"
  \/ getAction(MI) = "Lower" /\ FreeIds = {}

\* Mutant: the artifact is put on the retry list twice.
DeferArtifactTwice(rl, MI) == Append(Append(rl, MI), MI)

\* Mutant: the artifact is not kept.
DeferArtifactDropped(rl, MI) == rl

\* Line 258: the artifact is put at the end of the retry list.
DeferArtifact(rl, MI) == Append(rl, MI)

\* Line 253-263: UnableToLegalize.  An artifact is deferred, anything else
\* stops the pass (stopLegalizing, return false).
InstUnable ==
  /\ pc = "InstLoop" /\ InstList # <<>>
  /\ LET MI == Back(InstList)
     IN /\ ~DeadPath(MI)
        /\ Unable(MI)
        /\ InstList' = PopBack(InstList)
        /\ ev' = Event("Unable", MI)
        /\ IF isArtifact(kind[MI])
           THEN /\ RetryList' = DeferArtifact(RetryList, MI)
                /\ UNCHANGED <<pc, reported>>
           ELSE /\ pc' = "Failed"
                /\ reported' = {MI}
                /\ UNCHANGED RetryList
  /\ UNCHANGED <<graph, table, blocks, NumBlocks, ArtifactList,
                 NumArtifacts, Changed, newArts, pushed>>
  /\ UNCHANGED calc

\* legalizeInstrStep rewrites MI in place (widenScalar, narrowScalar):
\* changingInstr, then with src an artifact S is built that takes MI's
\* operands and feeds MI, with dst an artifact T is built that reads MI's
\* result and feeds MI's users, MI gets its new type and, for an artifact
\* with knd = "G", an opcode that is no artifact (G_BUILD_VECTOR becomes
\* G_BUILD_VECTOR_TRUNC); then changedInstr.
InstLegalizedInPlace ==
  /\ pc = "InstLoop" /\ InstList # <<>>
  /\ LET MI == Back(InstList)
     IN /\ ~DeadPath(MI)
        /\ getAction(MI) \in {"WidenScalar", "NarrowScalar"}
        /\ \E src \in BOOLEAN, dst \in BOOLEAN, knd \in {kind[MI], "G"} :
             LET n == (IF src THEN 1 ELSE 0) + (IF dst THEN 1 ELSE 0)
                 S == MinOf(FreeIds)
                 T == IF src THEN MinOf(FreeIds \ {S}) ELSE MinOf(FreeIds)
                 made == (IF src THEN {S} ELSE {}) \union
                         (IF dst THEN {T} ELSE {})
                 kd1 == [i \in Ids |-> IF i \in made THEN "ART" ELSE kind[i]]
                 kd2 == [kd1 EXCEPT ![MI] = knd]
                 op1 == IF src THEN [ops EXCEPT ![S] = ops[MI], ![MI] = {S}]
                        ELSE ops
                 op2 == IF dst THEN [Rewire(op1, MI, {T}) EXCEPT ![T] = {MI}]
                        ELSE op1
                 w0 == changingInstr([Lists EXCEPT !.I = PopBack(@)],
                                     MI, kind, ops)
                 w1 == IF src THEN createdInstr(w0, S, kd1) ELSE w0
                 w2 == IF dst THEN createdInstr(w1, T, kd1) ELSE w1
                 w3 == changedInstr(w2, MI, kd2)
             IN /\ Cardinality(FreeIds) >= n
                /\ (knd # kind[MI] => ~dst)
                /\ st' = [i \in Ids |-> IF i \in made THEN "live" ELSE st[i]]
                /\ kind' = kd2
                /\ ops' = op2
                /\ se' = [i \in Ids |-> IF i \in made THEN FALSE ELSE se[i]]
                /\ sig' = [i \in Ids |->
                             IF i = MI /\ knd # kind[MI] THEN TruncSig
                             ELSE IF i \in made \union {MI}
                             THEN Other(sig[MI]) ELSE sig[i]]
                /\ InstList' = w3.I
                /\ ArtifactList' = w3.A
                /\ newArts' = newArts \union made
                /\ ev' = Event("InPlace", MI)
  /\ Changed' = TRUE
  /\ UNCHANGED <<table, blocks, NumBlocks, RetryList, NumArtifacts, pc,
                 reported, pushed>>
  /\ UNCHANGED calc

\* legalizeInstrStep replaces MI (lower): an instruction N of opcode class
\* knd is built that takes MI's operands and feeds MI's users, and MI is
\* erased.  grow: the expansion adds a basic block.
InstLegalizedReplace ==
  /\ pc = "InstLoop" /\ InstList # <<>>
  /\ LET MI == Back(InstList)
     IN /\ ~DeadPath(MI)
        /\ getAction(MI) = "Lower"
        /\ FreeIds # {}
        /\ \E knd \in Kinds, grow \in BOOLEAN :
             LET N == MinOf(FreeIds)
                 kd1 == [kind EXCEPT ![N] = knd]
                 op1 == [Rewire(ops, MI, {N}) EXCEPT ![N] = ops[MI]]
                 w0 == createdInstr([Lists EXCEPT !.I = PopBack(@)], N, kd1)
                 w1 == erasingInstr(w0, MI, kd1, op1)
             IN /\ (knd = "ART" => ~se[MI])
                /\ (knd = "TGT" => se[MI])
                /\ (grow => blocks < MaxBlocks)
                /\ st' = [st EXCEPT ![N] = "live", ![MI] = "erased"]
                /\ kind' = kd1
                /\ ops' = op1
                /\ se' = [se EXCEPT ![N] = se[MI]]
                /\ sig' = [sig EXCEPT
                             ![N] = IF knd = "TGT" THEN "s8" ELSE Other(sig[MI])]
                /\ blocks' = IF grow THEN blocks + 1 ELSE blocks
                /\ InstList' = w1.I
                /\ ArtifactList' = w1.A
                /\ newArts' = IF knd = "ART" THEN newArts \union {N}
                              ELSE newArts
                /\ ev' = Event("Replace", MI)
  /\ Changed' = TRUE
  /\ UNCHANGED <<table, NumBlocks, RetryList, NumArtifacts, pc, reported,
                 pushed>>
  /\ UNCHANGED calc

\* Mutant: one new artifact is not enough.
HasTwoNewArtifacts == Len(ArtifactList) > NumArtifacts + 1

\* Mutant: an artifact list of the same length counts as progress.
HasNoFewerArtifacts == Len(ArtifactList) >= NumArtifacts

\* Line 270: the deferred artifacts are tried again when the artifact list
\* is longer than it was when the round began.
HasNewArtifacts == Len(ArtifactList) > NumArtifacts

\* Mutant: the deferred artifacts are appended without a membership test.
RECURSIVE AppendAllPopBack(_, _)
AppendAllPopBack(al, rl) ==
  IF rl = <<>> THEN al
  ELSE AppendAllPopBack(Append(al, Back(rl)), PopBack(rl))

RECURSIVE InsertAllPopBack(_, _)
InsertAllPopBack(al, rl) ==
  IF rl = <<>> THEN al
  ELSE InsertAllPopBack(insert(al, Back(rl)), PopBack(rl))

\* Line 267-273: the real list is empty, the deferred artifacts go back on
\* the artifact list.
RetryMove ==
  /\ pc = "InstLoop" /\ InstList = <<>>
  /\ RetryList # <<>>
  /\ HasNewArtifacts
  /\ ArtifactList' = InsertAllPopBack(ArtifactList, RetryList)
  /\ RetryList' = <<>>
  /\ pc' = "ArtLoop"
  /\ ev' = [a |-> "RetryMove", mi |-> {}, k |-> "ART"]
  /\ UNCHANGED <<graph, table, blocks, NumBlocks, InstList, NumArtifacts,
                 Changed, reported, newArts, pushed>>
  /\ UNCHANGED calc

\* Mutant: the last deferred artifact is reported.
LastDeferred(rl) == rl[Len(rl)]

\* Line 274: the instruction the failure is reported on.
FirstDeferred(rl) == rl[1]

\* Line 273-277: no new artifacts, the pass stops on the first deferred one.
RetryFail ==
  /\ pc = "InstLoop" /\ InstList = <<>>
  /\ RetryList # <<>>
  /\ ~HasNewArtifacts
  /\ pc' = "Failed"
  /\ reported' = {FirstDeferred(RetryList)}
  /\ ev' = [a |-> "RetryFail", mi |-> {}, k |-> "ART"]
  /\ UNCHANGED <<graph, table, blocks, NumBlocks, InstList, ArtifactList,
                 RetryList, NumArtifacts, Changed, newArts, pushed>>
  /\ UNCHANGED calc

\* Mutant: the retry check may be skipped.
NoRetryAlways ==
  /\ pc = "InstLoop" /\ InstList = <<>>
  /\ pc' = "ArtLoop"
  /\ ev' = [a |-> "NoRetry", mi |-> {}, k |-> "ART"]
  /\ UNCHANGED <<graph, table, blocks, NumBlocks, InstList, ArtifactList,
                 RetryList, NumArtifacts, Changed, reported, newArts, pushed>>
  /\ UNCHANGED calc

\* Line 269, 279: nothing was deferred.
NoRetry ==
  /\ pc = "InstLoop" /\ InstList = <<>>
  /\ RetryList = <<>>
  /\ pc' = "ArtLoop"
  /\ ev' = [a |-> "NoRetry", mi |-> {}, k |-> "ART"]
  /\ UNCHANGED <<graph, table, blocks, NumBlocks, InstList, ArtifactList,
                 RetryList, NumArtifacts, Changed, reported, newArts, pushed>>
  /\ UNCHANGED calc

\* Line 279-286: a trivially dead instruction popped from the artifact list.
ArtDead ==
  /\ pc = "ArtLoop" /\ ArtifactList # <<>>
  /\ LET MI == Back(ArtifactList)
         wl == RemoveDeadInstFromLists([Lists EXCEPT !.A = PopBack(@)],
                                       MI, kind, ops)
     IN /\ DeadPath(MI)
        /\ InstList' = wl.I
        /\ ArtifactList' = wl.A
        /\ st' = [st EXCEPT ![MI] = "erased"]
        /\ ev' = Event("ArtDead", MI)
  /\ UNCHANGED <<kind, ops, se, sig, table, blocks, NumBlocks, RetryList,
                 NumArtifacts, Changed, pc, reported, newArts, pushed>>
  /\ UNCHANGED calc

\* The artifacts that MI can be combined with: those that define one of its
\* operands.
Sources(MI) == {D \in ops[MI] : st[D] = "live" /\ isArtifact(kind[D])}

\* Line 287-295: tryCombineInstruction cancels MI against the artifact D
\* that feeds it.  MI's users read what D read, or with mk one new artifact
\* N built from it; MI is dead, and so is D when MI was its only user.  The
\* engine then erases the dead instructions in order.
ArtCombine ==
  /\ pc = "ArtLoop" /\ ArtifactList # <<>>
  /\ LET MI == Back(ArtifactList)
     IN /\ ~DeadPath(MI)
        /\ isArtifact(kind[MI])
        /\ \E D \in Sources(MI), mk \in BOOLEAN :
             LET N == MinOf(FreeIds)
                 kd1 == IF mk THEN [kind EXCEPT ![N] = "ART"] ELSE kind
                 op1 == IF mk
                        THEN [Rewire(ops, MI, {N}) EXCEPT ![N] = ops[D]]
                        ELSE Rewire(ops, MI, ops[D])
                 w0 == [Lists EXCEPT !.A = PopBack(@)]
                 w1 == IF mk THEN createdInstr(w0, N, kd1) ELSE w0
                 w2 == RemoveDeadInstFromLists(w1, MI, kd1, op1)
                 alsoD == Users(D) = {MI}
                 w3 == IF alsoD THEN RemoveDeadInstFromLists(w2, D, kd1, op1)
                       ELSE w2
             IN /\ (mk => FreeIds # {})
                /\ st' = [i \in Ids |->
                            IF i = MI \/ (alsoD /\ i = D) THEN "erased"
                            ELSE IF mk /\ i = N THEN "live" ELSE st[i]]
                /\ kind' = kd1
                /\ ops' = op1
                /\ se' = IF mk THEN [se EXCEPT ![N] = FALSE] ELSE se
                /\ sig' = IF mk THEN [sig EXCEPT ![N] = sig[MI]] ELSE sig
                /\ InstList' = w3.I
                /\ ArtifactList' = w3.A
                /\ newArts' = IF mk THEN newArts \union {N} ELSE newArts
                /\ ev' = Event("Combine", MI)
  /\ Changed' = TRUE
  /\ UNCHANGED <<table, blocks, NumBlocks, RetryList, NumArtifacts, pc,
                 reported, pushed>>
  /\ UNCHANGED calc

\* Mutant: an artifact that was not combined stops the pass.
ArtPushBackFatal ==
  /\ pc = "ArtLoop" /\ ArtifactList # <<>>
  /\ LET MI == Back(ArtifactList)
     IN /\ ~DeadPath(MI)
        /\ ArtifactList' = PopBack(ArtifactList)
        /\ pc' = "Failed"
        /\ reported' = {MI}
        /\ ev' = Event("PushBack", MI)
  /\ UNCHANGED <<graph, table, blocks, NumBlocks, InstList, RetryList,
                 NumArtifacts, Changed, newArts, pushed>>
  /\ UNCHANGED calc

\* Line 296-300: the artifact was not combined and goes on the real list.
ArtPushBack ==
  /\ pc = "ArtLoop" /\ ArtifactList # <<>>
  /\ LET MI == Back(ArtifactList)
     IN /\ ~DeadPath(MI)
        /\ ArtifactList' = PopBack(ArtifactList)
        /\ InstList' = insert(InstList, MI)
        /\ pushed' = pushed \union {MI}
        /\ ev' = Event("PushBack", MI)
  /\ UNCHANGED <<graph, table, blocks, NumBlocks, RetryList, NumArtifacts,
                 Changed, pc, reported, newArts>>
  /\ UNCHANGED calc

\* Mutant: the artifact drain is left as soon as the real list has a member.
NextRoundEarly ==
  /\ pc = "ArtLoop"
  /\ InstList # <<>>
  /\ NumArtifacts' = Len(ArtifactList)
  /\ newArts' = {}
  /\ pc' = "InstLoop"
  /\ ev' = [a |-> "NextRound", mi |-> {}, k |-> "G"]
  /\ UNCHANGED <<graph, table, blocks, NumBlocks, InstList, ArtifactList,
                 RetryList, Changed, reported, pushed>>
  /\ UNCHANGED calc

\* Line 302, 236-238: the real list is not empty, another round begins.
NextRound ==
  /\ pc = "ArtLoop" /\ ArtifactList = <<>>
  /\ InstList # <<>>
  /\ NumArtifacts' = Len(ArtifactList)
  /\ newArts' = {}
  /\ pc' = "InstLoop"
  /\ ev' = [a |-> "NextRound", mi |-> {}, k |-> "G"]
  /\ UNCHANGED <<graph, table, blocks, NumBlocks, InstList, ArtifactList,
                 RetryList, Changed, reported, pushed>>
  /\ UNCHANGED calc

\* Mutant: only a lost block is noticed.
BlockCountShrunk == blocks < NumBlocks

\* Line 306: the function holds another number of blocks than at entry.
BlockCountChanged == blocks # NumBlocks

\* Line 302-313: both lists are empty but blocks were inserted.
BlockCountFail ==
  /\ pc = "ArtLoop" /\ ArtifactList = <<>>
  /\ InstList = <<>>
  /\ BlockCountChanged
  /\ pc' = "Failed"
  /\ ev' = [a |-> "BlockCountFail", mi |-> {}, k |-> "G"]
  /\ UNCHANGED <<graph, table, blocks, NumBlocks, InstList, ArtifactList,
                 RetryList, NumArtifacts, Changed, reported, newArts, pushed>>
  /\ UNCHANGED calc

\* Mutant: the pass returns as soon as the artifact list is empty.
FinishEarly ==
  /\ pc = "ArtLoop" /\ ArtifactList = <<>>
  /\ ~BlockCountChanged
  /\ pc' = "Done"
  /\ ev' = [a |-> "Finish", mi |-> {}, k |-> "G"]
  /\ UNCHANGED <<graph, table, blocks, NumBlocks, InstList, ArtifactList,
                 RetryList, NumArtifacts, Changed, reported, newArts, pushed>>
  /\ UNCHANGED calc

\* Line 302, 315: both lists are empty, the pass returns Changed.
Finish ==
  /\ pc = "ArtLoop" /\ ArtifactList = <<>>
  /\ InstList = <<>>
  /\ ~BlockCountChanged
  /\ pc' = "Done"
  /\ ev' = [a |-> "Finish", mi |-> {}, k |-> "G"]
  /\ UNCHANGED <<graph, table, blocks, NumBlocks, InstList, ArtifactList,
                 RetryList, NumArtifacts, Changed, reported, newArts, pushed>>
  /\ UNCHANGED calc

Next ==
  \/ InstDead
  \/ InstAlreadyLegal
  \/ InstUnable
  \/ InstLegalizedInPlace
  \/ InstLegalizedReplace
  \/ RetryMove
  \/ RetryFail
  \/ NoRetry
  \/ ArtDead
  \/ ArtCombine
  \/ ArtPushBack
  \/ NextRound
  \/ BlockCountFail
  \/ Finish

Spec == Init /\ [][Next]_vars

\* The engine is one sequential loop: as long as a step is possible, one is
\* taken.
LiveSpec == Spec /\ WF_vars(Next)

----------------------------------------------------------------------------
\* Properties.

Terminated == pc \in {"Done", "Failed"}

\* The instruction the real-list loop pops next, and the artifact loop's.
AtInstPop == pc = "InstLoop" /\ InstList # <<>>

AtArtPop == pc = "ArtLoop" /\ ArtifactList # <<>>

Generic(i) == kind[i] \in {"G", "ART"}

\* C1: when the pass ends in Done, every generic instruction still in the
\* function is Legal under the rule table: a further legalizeInstrStep on it
\* would return AlreadyLegal.
C1_DoneIsLegal ==
  pc = "Done" =>
    \A i \in Ids : st[i] = "live" /\ Generic(i) => table[sig[i]] = "Legal"

\* A run that rewrote something ends in Done with generic instructions left.
C1_Witness ==
  /\ pc = "Done" /\ Changed
  /\ \E i \in Ids : st[i] = "live" /\ Generic(i) /\ i \notin 1..MaxInit

\* C2: UnableToLegalize on a popped instruction that is no artifact stops
\* the pass at once: the failure is reported on that instruction, nothing
\* else changes, and no step follows a failure.
C2_UnableRealIsFatal ==
  [][/\ (/\ AtInstPop
         /\ ~isTriviallyDead(Back(InstList))
         /\ Unable(Back(InstList))
         /\ kind[Back(InstList)] # "ART")
        => /\ pc' = "Failed"
           /\ reported' = {Back(InstList)}
           /\ UNCHANGED <<graph, ArtifactList, RetryList, Changed>>
     /\ pc = "Failed" => UNCHANGED vars]_vars

\* The pass failed on a real instruction while work was still pending.
C2_Witness ==
  /\ pc = "Failed" /\ ev.a = "Unable" /\ reported = ev.mi
  /\ InstList # <<>> /\ ArtifactList # <<>>

\* C3: UnableToLegalize on a popped artifact does not fail the pass: the
\* artifact is appended to the retry list and the real list keeps draining.
C3_UnableArtifactDeferred ==
  [][(/\ AtInstPop
      /\ ~isTriviallyDead(Back(InstList))
      /\ Unable(Back(InstList))
      /\ kind[Back(InstList)] = "ART")
     => /\ pc' = "InstLoop"
        /\ reported' = {}
        /\ RetryList' = Append(RetryList, Back(InstList))
        /\ InstList' = PopBack(InstList)
        /\ UNCHANGED <<graph, ArtifactList>>]_vars

\* An artifact was deferred and the drain goes on with another instruction.
C3_Witness ==
  /\ pc = "InstLoop" /\ ev.a = "Unable" /\ ev.k = "ART"
  /\ RetryList # <<>> /\ InstList # <<>>

\* The end of a real-list drain with deferred artifacts.
AtRetryCheck == pc = "InstLoop" /\ InstList = <<>> /\ RetryList # <<>>

C5_NewArtifactRetries ==
  [][AtRetryCheck /\ newArts # {}
     => /\ pc' = "ArtLoop"
        /\ RetryList' = <<>>
        /\ Members(RetryList) \subseteq Members(ArtifactList')]_vars

\* The deferred artifacts were moved back in a round that built an artifact.
C5_Witness ==
  /\ ev.a = "RetryMove" /\ pc = "ArtLoop"
  /\ \E i \in newArts : st[i] = "live" /\ InList(ArtifactList, i)

\* C6: a run that ends in Done holds as many blocks as at entry; with
\* another number of blocks the run ends in Failed.
C6_DoneKeepsBlockCount == pc = "Done" => blocks = NumBlocks

\* Both lists drained with a block inserted, and the pass failed on that.
C6_Witness ==
  /\ pc = "Failed" /\ ev.a = "BlockCountFail"
  /\ blocks # NumBlocks /\ reported = {}

NoRewriteCycle == \E s \in Sigs : table[s] \in {"Legal", "Unsupported"}

PopsDead(MI) ==
  /\ \/ AtInstPop /\ MI = Back(InstList)
     \/ AtArtPop /\ MI = Back(ArtifactList)
  /\ isTriviallyDead(MI)

\* C8: a trivially dead instruction popped from either list is erased
\* without being legalized or combined (nothing else in the function
\* changes), it leaves both lists, and the generic instructions that define
\* its operands are put on the worklist of their kind.
C8_DeadIsErased ==
  [][\A MI \in Ids : PopsDead(MI) =>
       /\ st' = [st EXCEPT ![MI] = "erased"]
       /\ UNCHANGED <<kind, ops, se, sig, blocks, Changed, RetryList, pc>>
       /\ ~InList(InstList', MI) /\ ~InList(ArtifactList', MI)
       /\ \A d \in ops[MI] :
            /\ kind[d] = "G" => InList(InstList', d)
            /\ kind[d] = "ART" => InList(ArtifactList', d)]_vars

\* A dead artifact was erased and the real instruction that fed it, which
\* was on no list, is back on the real list.
C8_Witness ==
  /\ ev.a = "ArtDead"
  /\ \E MI \in ev.mi : /\ st[MI] = "erased"
                       /\ \E d \in ops[MI] : kind[d] = "G" /\ Back(InstList) = d

\* C9: the dead-instruction path of either loop erases no instruction that
\* has side effects and none whose result is still used.
C9_DeadPathSparesLive ==
  [][ev'.a \in {"InstDead", "ArtDead"} =>
       \A i \in Ids : st[i] = "live" /\ st'[i] = "erased"
                      => ~se[i] /\ Users(i) = {}]_vars

\* An unused instruction with side effects was popped and is still there,
\* after a dead one was erased.
C9_Witness ==
  /\ \E i \in ev.mi : st[i] = "live" /\ se[i] /\ Users(i) = {} /\ kind[i] = "G"
  /\ \E j \in Ids : st[j] = "erased"
  /\ ev.a = "AlreadyLegal"

InBoth == Members(InstList) \intersect Members(ArtifactList)

\* C10 as stated: no instruction is a member of both worklists.
C10_Disjoint == InBoth = {}

\* C10 amended: only an artifact that the artifact loop pushed onto the real
\* list can be a member of both worklists.
C10_OnlyPushedInBoth == InBoth \subseteq pushed

\* A pushed artifact is on both lists after its user was erased.
C10_Witness ==
  /\ InBoth # {}
  /\ ev.a = "InstDead"
  /\ \E MI \in ev.mi : ops[MI] \intersect InBoth # {}

NoDuplicates(l) == \A a, b \in 1..Len(l) : l[a] = l[b] => a = b

\* C11: neither worklist ever holds two entries for the same instruction,
\* whatever inserted it (a created or changed event, the erasing or changing
\* of a user, the retry list, the push-back of an artifact).
C11_SingleEntry == NoDuplicates(InstList) /\ NoDuplicates(ArtifactList)

\* An instruction was replaced and the definer of its operand, re-enqueued by
\* the erasure, kept its place below the replacement: it was a member before.
C11_Witness ==
  /\ ev.a = "Replace"
  /\ \E MI \in ev.mi, D \in Ids :
       /\ D \in ops[MI] /\ kind[D] = "G"
       /\ InList(InstList, D) /\ Back(InstList) # D

Pos(l, x) == CHOOSE k \in 1..Len(l) : l[k] = x

\* After a step that popped the back of list l, leaving l2: the members that
\* were not below the popped one lie above all those that were, and these
\* keep their order.
NewAboveOld(l, l2) ==
  \A x, y \in Members(l2) :
    /\ (x \notin Members(PopBack(l)) /\ y \in Members(PopBack(l)))
         => Pos(l2, x) > Pos(l2, y)
    /\ (x \in Members(PopBack(l)) /\ y \in Members(PopBack(l))
         /\ Pos(l, x) > Pos(l, y)) => Pos(l2, x) > Pos(l2, y)

\* C12: each drain loop pops the back of its list, and what a step newly
\* enqueues on the list being drained lies above everything that was on it
\* when the step's instruction was popped, so it is popped first.
C12_NewestFirst ==
  [][/\ AtInstPop => /\ ev'.mi = {Back(InstList)}
                      /\ NewAboveOld(InstList, InstList')
     /\ AtArtPop => /\ ev'.mi = {Back(ArtifactList)}
                     /\ NewAboveOld(ArtifactList, ArtifactList')]_vars

\* An instruction built by a rewrite was popped while an instruction seeded
\* before the rewrite is still waiting on the real list.
C12_Witness ==
  /\ pc = "InstLoop" /\ InstList # <<>>
  /\ ev.a \in {"AlreadyLegal", "InPlace", "Replace", "InstDead", "Unable"}
  /\ \E X \in ev.mi : X > MaxInit /\ ev.k = "G"
  /\ \A y \in Members(InstList) : y <= MaxInit

\* List l holds its members in the order of the function, so that a user
\* lies above the instructions of the list that define its operands.
InScanOrder(l) ==
  /\ \A a, b \in 1..Len(l) : a < b => l[a] < l[b]
  /\ \A u, d \in Members(l) : d \in ops[u] => Pos(l, d) < Pos(l, u)

\* Two members of l that the step neither pops nor removes keep their order.
KeepsOrder(l, l2) ==
  \A x, y \in Members(l) \intersect Members(l2) :
    (x \notin ev'.mi /\ y \notin ev'.mi /\ Pos(l, x) < Pos(l, y))
      => Pos(l2, x) < Pos(l2, y)

\* C13: the function is scanned once, before the first drain, top-down: the
\* drain begins with both lists in the order of the function, no later round
\* scans again, and instructions that stay on a list keep their order; so of
\* two seeded instructions the later one is popped first, a user before the
\* instruction that defines its operand.
C13_SeededOnceTopDown ==
  /\ pc = "InstLoop" /\ InScanOrder(InstList) /\ InScanOrder(ArtifactList)
  /\ [][/\ KeepsOrder(InstList, InstList')
         /\ KeepsOrder(ArtifactList, ArtifactList')
         /\ ev'.a = "NextRound" => UNCHANGED <<InstList, ArtifactList>>]_vars

\* The later of two seeded instructions, a user of the earlier one, was
\* popped and found legal; the earlier one is still waiting.
C13_Witness ==
  /\ pc = "InstLoop" /\ ev.a = "AlreadyLegal" /\ Len(InstList) = 1
  /\ \E y \in ev.mi : InstList[1] \in ops[y] /\ InstList[1] < y

\* C14: once an instruction MI has been erased (erasingInstr was notified),
\* MI is a member of neither worklist, and every other generic instruction
\* still in the function that defines a register MI used is a member of the
\* worklist of its kind.
C14_ErasedLeavesDefsEnqueued ==
  [][\A MI \in Ids : (st[MI] = "live" /\ st'[MI] = "erased") =>
       /\ ~InList(InstList', MI) /\ ~InList(ArtifactList', MI)
       /\ \A D \in ops[MI] \ {MI} : st'[D] = "live" =>
            /\ kind'[D] = "G" => InList(InstList', D)
            /\ kind'[D] = "ART" => InList(ArtifactList', D)]_vars

\* An artifact on the real list was replaced and erased; the real
\* instruction that defined its operand, which had left the list, is back
\* on top of it.
C14_Witness ==
  /\ ev.a = "Replace" /\ ev.k = "ART"
  /\ \E MI \in ev.mi, D \in Ids :
       /\ st[MI] = "erased" /\ D \in ops[MI]
       /\ st[D] = "live" /\ kind[D] = "G" /\ Back(InstList) = D

\* Instruction i, inserted on account of its opcode class k, went to the
\* list of that class and, if it was not there before, to no other.
Classified(i, k, I2, A2) ==
  /\ k = "ART" => InList(A2, i) /\ (InList(I2, i) => InList(InstList, i))
  /\ k = "G" => InList(I2, i) /\ (InList(A2, i) => InList(ArtifactList, i))
  /\ k = "TGT" => /\ InList(I2, i) => InList(InstList, i)
                  /\ InList(A2, i) => InList(ArtifactList, i)

\* C15: seeding, created events and changed events classify an instruction
\* by the opcode it has at that time: an artifact goes to the artifact list
\* only, another generic opcode to the real list only, a target-specific
\* opcode to neither; a changed instruction is enqueued like a built one, on
\* top of the list of its new opcode unless it is a member already.
C15_ClassifiedByKind ==
  /\ \A i \in Ids :
       /\ InList(InstList, i) <=> (st[i] = "live" /\ kind[i] = "G")
       /\ InList(ArtifactList, i) <=> (st[i] = "live" /\ kind[i] = "ART")
  /\ [][/\ \A i \in Ids : (st[i] = "free" /\ st'[i] = "live") =>
             /\ Classified(i, kind'[i], InstList', ArtifactList')
             /\ ~(InList(InstList', i) /\ InList(ArtifactList', i))
        /\ ev'.a = "InPlace" =>
             \A MI \in ev'.mi :
               /\ Classified(MI, kind'[MI], InstList', ArtifactList')
               /\ kind'[MI] = "G" => Back(InstList') = MI
               /\ kind'[MI] = "ART" =>
                    /\ ~InList(ArtifactList, MI) => Back(ArtifactList') = MI
                    /\ ~InList(InstList', MI)]_vars

\* An artifact was rewritten in place into an opcode that is no artifact and
\* is on top of the real list, while the artifact built to feed it is on the
\* artifact list.
C15_Witness ==
  /\ ev.a = "InPlace" /\ ev.k = "ART"
  /\ \E MI \in ev.mi, S \in newArts :
       /\ kind[MI] = "G" /\ Back(InstList) = MI
       /\ S \in ops[MI] /\ InList(ArtifactList, S) /\ ~InList(InstList, S)

\* C16 as stated: a failure reported on an instruction that the artifact loop
\* pushed onto the real list comes from the retry check.
C16_PushedFailsByRetryOnly ==
  pc = "Failed" => \A X \in reported : X \in pushed => ev.a = "RetryFail"

\* C16 amended: a popped artifact that is not dead and is not combined away
\* is put on the real list, and no step of the artifact loop fails; a failure
\* is reported on an artifact only by the retry check, on an artifact that
\* UnableToLegalize put on the retry list, and on a pushed instruction that
\* is no artifact any more only by UnableToLegalize itself.
C16_UncombinedIsPushed ==
  /\ [](pc = "Failed" =>
          \A X \in reported :
            /\ kind[X] = "ART" =>
                 ev.a = "RetryFail" /\ RetryList # <<>> /\ X = RetryList[1]
            /\ (X \in pushed /\ kind[X] # "ART") => ev.a = "Unable")
  /\ [][/\ (AtArtPop /\ kind[Back(ArtifactList)] = "ART") =>
             /\ pc' = "ArtLoop" /\ reported' = reported
             /\ \/ st'[Back(ArtifactList)] = "erased"
                \/ /\ InList(InstList', Back(ArtifactList))
                   /\ UNCHANGED <<graph, RetryList>>
        /\ RetryList' # RetryList =>
             \/ ev'.a = "RetryMove" /\ RetryList' = <<>>
             \/ /\ ev'.a = "Unable" /\ ev'.k = "ART"
                /\ \E MI \in ev'.mi : RetryList' = Append(RetryList, MI)]_vars

\* An artifact that was pushed onto the real list could not be legalized
\* there, was deferred, and the retry check failed the pass on it.
C16_Witness ==
  /\ pc = "Failed" /\ ev.a = "RetryFail"
  /\ reported \subseteq pushed /\ reported # {}
  /\ \A X \in reported : kind[X] = "ART" /\ st[X] = "live"

\* C17: the engine is in Done only with the real list, the artifact list and
\* the retry list all empty, and every round of the outer loop starts with
\* an empty retry list.
C17_DoneAllEmpty ==
  /\ pc = "Done" =>
       InstList = <<>> /\ ArtifactList = <<>> /\ RetryList = <<>>
  /\ ev.a \in {"init", "NextRound"} => pc = "InstLoop" /\ RetryList = <<>>

\* The pass ended in Done after a second round: an artifact that the first
\* round pushed onto the real list is still in the function, and an
\* instruction was erased.
C17_Witness ==
  /\ pc = "Done" /\ InstList = <<>> /\ ArtifactList = <<>>
  /\ \E i \in pushed : st[i] = "live" /\ kind[i] = "ART"
  /\ \E j \in Ids : st[j] = "erased"

\* The branches of the engine that a state allows.  What legalizeInstrStep
\* and tryCombineInstruction do to the function is theirs to decide; whether
\* the combiner combines is the one outcome that no field of the state holds,
\* so its two branches count as one.
Branches ==
  << ENABLED InstDead, ENABLED InstAlreadyLegal, ENABLED InstUnable,
     ENABLED InstLegalizedInPlace, ENABLED InstLegalizedReplace,
     ENABLED RetryMove, ENABLED RetryFail, ENABLED NoRetry, ENABLED ArtDead,
     ENABLED ArtCombine \/ ENABLED ArtPushBack, ENABLED NextRound,
     ENABLED BlockCountFail, ENABLED Finish >>

Allowed == {b \in DOMAIN Branches : Branches[b]}

AllLegalUntouched ==
  /\ ~Changed /\ \A i \in Ids : st[i] # "erased"
  /\ \A i \in Live : Generic(i) =>
        table[sig[i]] = "Legal" /\ ~isTriviallyDead(i)

\* No artifact of the function is fed by an artifact.
NoCombinable == \A i \in Live : kind[i] = "ART" => Sources(i) = {}

\* A step on a popped instruction that is Legal changes nothing and reports
\* AlreadyLegal.
LegalStepIsNoOp ==
  (/\ AtInstPop
   /\ ~isTriviallyDead(Back(InstList))
   /\ table[sig[Back(InstList)]] = "Legal")
  => /\ ev'.a = "AlreadyLegal"
     /\ InstList' = PopBack(InstList)
     /\ UNCHANGED <<graph, blocks, ArtifactList, RetryList, Changed, pc>>

\* C19 as stated: a step on a Legal instruction is a no-op, and a run on a
\* function whose instructions are all Legal and live never changes the
\* function, never fails and keeps Changed false.
C19_LegalRunUnchanged ==
  [][/\ LegalStepIsNoOp
     /\ AllLegalUntouched =>
          UNCHANGED <<graph, Changed>> /\ pc' # "Failed"]_vars

\* C19 amended: the same, for a function in which the combiner finds nothing
\* to combine.
C19_LegalRunUnchangedIfNoCombine ==
  [][/\ LegalStepIsNoOp
     /\ (AllLegalUntouched /\ NoCombinable) =>
          UNCHANGED <<graph, Changed>> /\ pc' # "Failed"]_vars

\* A run on a function of Legal live instructions, one of them an artifact
\* that went through the real list, ended in Done with Changed false.
C19_Witness ==
  /\ pc = "Done" /\ AllLegalUntouched /\ NoCombinable
  /\ \E i \in pushed : kind[i] = "ART"
  /\ \E j \in Live : kind[j] = "G"

----------------------------------------------------------------------------
\* LegalizerHelper's algorithms, run on one instruction outside the engine
\* as the unit tests do.  A register value is its type's width and its bits
\* read as an unsigned number.

NarrowBits == 8     \* LLT s8
WideBits == 16      \* LLT s16
MaxSmallBits == 3   \* the other narrow widths tried, each with all wider
                    \* widths up to its double
MaxMergeBits == 6   \* the widest merged value tried
MaxVectorBits == 5  \* the widest vector tried
MaxPadBits == 3  \* the widest vector padded
MaxParts == 3  \* the most copies of its shape a vector is padded to

Reg(w, n) == [bits |-> w, val |-> n]

Values(w) == {Reg(w, n) : n \in 0..(2 ^ w - 1)}

\* The generic opcodes the expansions are built from.
G_ZEXT(x, w) == Reg(w, x.val % (2 ^ x.bits))

G_TRUNC(x, w) == Reg(w, x.val % (2 ^ w))

G_ADD(x, y) == Reg(x.bits, (x.val + y.val) % (2 ^ x.bits))

G_SUB(x, y) == Reg(x.bits, (x.val - y.val) % (2 ^ x.bits))

G_CONSTANT(w, n) == Reg(w, n % (2 ^ w))

RECURSIVE BitAnd(_, _)
BitAnd(a, b) ==
  IF a = 0 \/ b = 0 THEN 0
  ELSE (a % 2) * (b % 2) + 2 * BitAnd(a \div 2, b \div 2)

G_AND(x, y) == Reg(x.bits, BitAnd(x.val, y.val))

G_ICMP_ne(x, y) == x.val # y.val

\* G_UADDO and G_USUBO at the width of their operands: the result and the
\* unsigned overflow or borrow.
G_UADDO(x, y) ==
  [res |-> Reg(x.bits, (x.val + y.val) % (2 ^ x.bits)),
   carry |-> x.val + y.val >= 2 ^ x.bits]

G_USUBO(x, y) ==
  [res |-> Reg(x.bits, (x.val - y.val) % (2 ^ x.bits)),
   carry |-> x.val < y.val]

\* Mutant: the wide result is masked to the wide width.
MaskOfWide(w, w2) == G_CONSTANT(w2, 2 ^ w2 - 1)

\* The constant the wide result is masked with: the narrow type's ones.
MaskOfNarrow(w, w2) == G_CONSTANT(w2, 2 ^ w - 1)

\* widenScalar on G_UADDO / G_USUBO, type index 0, from the operands' width
\* to w2: what the expansion computes from the wide result.
WidenedOverflow(wide, w, w2) ==
  LET CST == MaskOfNarrow(w, w2)
      AND == G_AND(wide, CST)
  IN [res |-> G_TRUNC(wide, w), carry |-> G_ICMP_ne(wide, AND)]

widenScalarUADDO(x, y, w2) ==
  LET LHS == G_ZEXT(x, w2)
      RHS == G_ZEXT(y, w2)
      ADD == G_ADD(LHS, RHS)
  IN WidenedOverflow(ADD, x.bits, w2)

widenScalarUSUBO(x, y, w2) ==
  LET LHS == G_ZEXT(x, w2)
      RHS == G_ZEXT(y, w2)
      SUB == G_SUB(LHS, RHS)
  IN WidenedOverflow(SUB, x.bits, w2)

\* Bit i of an unsigned number.
Bit(n, i) == (n \div (2 ^ i)) % 2

G_OR(x, y) == Reg(x.bits, x.val + y.val - BitAnd(x.val, y.val))

G_XOR(x, y) == Reg(x.bits, x.val + y.val - 2 * BitAnd(x.val, y.val))

G_SHL(x, amt) == Reg(x.bits, (x.val * 2 ^ amt.val) % (2 ^ x.bits))

G_LSHR(x, amt) == Reg(x.bits, x.val \div (2 ^ amt.val))

G_ICMP_eq(x, y) == x.val = y.val

G_SELECT(tst, a, b) == IF tst THEN a ELSE b

G_CTPOP(x) ==
  Reg(x.bits, Cardinality({i \in 0..(x.bits - 1) : Bit(x.val, i) = 1}))

\* The zero bits above the highest set bit; the width for input 0.
G_CTLZ(x) ==
  Reg(x.bits, Cardinality({i \in 0..(x.bits - 1) :
                             \A j \in i..(x.bits - 1) : Bit(x.val, j) = 0}))

\* The zero bits below the lowest set bit; the width for input 0.
G_CTTZ(x) ==
  Reg(x.bits, Cardinality({i \in 0..(x.bits - 1) :
                             \A j \in 0..i : Bit(x.val, j) = 0}))

\* The ZERO_UNDEF variants: for input 0 the result is undefined, u is what
\* the target or the library routine happens to return.
G_CTLZ_ZERO_UNDEF(x, u) == IF x.val = 0 THEN u ELSE G_CTLZ(x)

G_CTTZ_ZERO_UNDEF(x, u) == IF x.val = 0 THEN u ELSE G_CTTZ(x)

\* What a zero-undefined count at width w may return for input x: anything
\* for 0; for another input the choice is not used.
UndefinedAtZero(x, w) == IF x.val = 0 THEN Values(w) ELSE {G_CONSTANT(w, 0)}

\* The legalization info a test declares for the bit-counting opcodes.
BitOps == {"G_CTTZ", "G_CTTZ_ZERO_UNDEF", "G_CTLZ", "G_CTLZ_ZERO_UNDEF",
           "G_CTPOP"}

NoInfo == [o \in BitOps |-> "Unsupported"]

legalFor(o) == [NoInfo EXCEPT ![o] = "Legal"]

libcallFor(o) == [NoInfo EXCEPT ![o] = "Libcall"]

isSupported(info, o) == info[o] # "Unsupported"

\* Mutant: the zero-undefined count is used without the zero-input guard.
SelectUnguarded(opc, CZU, x) ==
  [val |-> CZU, seq |-> <<opc>>, res |-> "Legalized", czu |-> CZU]

\* The zero-input special case around a zero-undefined count CZU of x.
SelectGuarded(opc, CZU, x) ==
  LET ZERO == G_CONSTANT(x.bits, 0)
      LEN == G_CONSTANT(x.bits, x.bits)
      CMP == G_ICMP_eq(x, ZERO)
      SEL == G_SELECT(CMP, LEN, CZU)
  IN [val |-> SEL,
      seq |-> <<opc, "G_CONSTANT", "G_CONSTANT", "G_ICMP eq", "G_SELECT">>,
      res |-> "Legalized", czu |-> CZU]

\* x & -x: the lowest set bit of x, 0 for x = 0.  (As a mutant of
\* MaskedValue: the expansions count the bits of x & -x.)
LowestSetBit(x) == G_AND(x, G_SUB(G_CONSTANT(x.bits, 0), x))

\* Mutant: the masked value is x - 1, without the mask ~x.
DecrementOnly(x) == G_ADD(x, G_CONSTANT(x.bits, -1))

\* The value both trailing-zero expansions count the bits of: ones exactly
\* below the lowest set bit of x.
MaskedValue(x) ==
  LET NEG1 == G_CONSTANT(x.bits, -1)
      NOT == G_XOR(x, NEG1)
      SUB1 == G_ADD(x, NEG1)
      AND1 == G_AND(NOT, SUB1)
  IN AND1

\* Mutant: the population count is taken of x itself.
lowerCTTZUnmasked(x, info, u) ==
  [val |-> G_CTPOP(x), seq |-> <<"G_CTPOP">>, res |-> "Legalized",
   masked |-> x]

\* Helper.lower on G_CTTZ: through G_CTTZ_ZERO_UNDEF when the target has it,
\* else through G_CTLZ when it has that and no G_CTPOP, else through G_CTPOP.
lowerCTTZ(x, info, u) ==
  IF isSupported(info, "G_CTTZ_ZERO_UNDEF")
  THEN SelectGuarded("G_CTTZ_ZERO_UNDEF", G_CTTZ_ZERO_UNDEF(x, u), x)
  ELSE IF ~isSupported(info, "G_CTPOP") /\ isSupported(info, "G_CTLZ")
  THEN LET AND1 == MaskedValue(x)
           CST == G_CONSTANT(x.bits, x.bits)
           CTLZ == G_CTLZ(AND1)
       IN [val |-> G_SUB(CST, CTLZ),
           seq |-> <<"G_CONSTANT", "G_XOR", "G_ADD", "G_AND", "G_CONSTANT",
                     "G_CTLZ", "G_SUB">>,
           res |-> "Legalized", masked |-> AND1]
  ELSE LET AND1 == MaskedValue(x)
           POP == G_CTPOP(AND1)
       IN [val |-> POP,
           seq |-> <<"G_CONSTANT", "G_XOR", "G_ADD", "G_AND", "G_CTPOP">>,
           res |-> "Legalized", masked |-> AND1]

\* Mutant: the cascade stops after its first step.
SmearOnce(op, shift, shifts) ==
  IF 2 * shift > op.bits THEN [op |-> op, shifts |-> shifts]
  ELSE [op |-> G_OR(op, G_LSHR(op, G_CONSTANT(op.bits, shift))),
        shifts |-> Append(shifts, shift)]

\* The shift-OR cascade: op is ORed with itself shifted right by shift, and
\* again with the shift doubled, while the shift is at most half the width.
\* shifts lists the shift amounts used.
RECURSIVE Smear(_, _, _)
Smear(op, shift, shifts) ==
  IF 2 * shift > op.bits THEN [op |-> op, shifts |-> shifts]
  ELSE LET Cst == G_CONSTANT(op.bits, shift)
           Sh == G_LSHR(op, Cst)
           Or == G_OR(op, Sh)
       IN Smear(Or, 2 * shift, Append(shifts, shift))

RECURSIVE SmearSeq(_)
SmearSeq(n) ==
  IF n = 0 THEN <<>>
  ELSE <<"G_CONSTANT", "G_LSHR", "G_OR">> \o SmearSeq(n - 1)

\* Helper.lower on G_CTLZ: through G_CTLZ_ZERO_UNDEF when the target has it
\* (natively or as a library call), else through G_CTPOP of the smeared input.
lowerCTLZ(x, info, u) ==
  IF isSupported(info, "G_CTLZ_ZERO_UNDEF")
  THEN SelectGuarded("G_CTLZ_ZERO_UNDEF", G_CTLZ_ZERO_UNDEF(x, u), x)
  ELSE LET Sm == Smear(x, 1, <<>>)
           CTPOP == G_CTPOP(Sm.op)
           LenCst == G_CONSTANT(x.bits, x.bits)
           Sub == G_SUB(LenCst, CTPOP)
       IN [val |-> Sub,
           seq |-> SmearSeq(Len(Sm.shifts)) \o
                   <<"G_CTPOP", "G_CONSTANT", "G_SUB">>,
           res |-> "Legalized",
           shifts |-> Sm.shifts, smeared |-> Sm.op]

\* The widths the lowerings are tried at.
LowerWidths == (1..MaxSmallBits) \union {NarrowBits}

\* The legalization info each test declares.
Info(t) ==
  CASE t = "LowerBitCountingCTTZ0" -> legalFor("G_CTTZ_ZERO_UNDEF")
    [] t = "LowerBitCountingCTTZ1" -> legalFor("G_CTLZ")
    [] t = "LowerBitCountingCTTZ2" -> legalFor("G_CTPOP")
    [] t = "LowerBitCountingCTLZ0" -> legalFor("G_CTLZ_ZERO_UNDEF")
    [] t = "LowerBitCountingCTLZLibcall" -> libcallFor("G_CTLZ_ZERO_UNDEF")
    [] t = "LowerBitCountingCTLZ1" -> legalFor("G_CTPOP")
    [] OTHER -> NoInfo

\* The widenings tried: s8 to s16, and every small width to the wider ones.
Widenings ==
  {<<NarrowBits, WideBits>>} \union
  {<<w, w2>> \in (1..MaxSmallBits) \X (1..(2 * MaxSmallBits)) :
     w < w2 /\ w2 <= 2 * w}

\* Mutant: nothing is ORed into the zero-extended input.
NoBitAbove(w, w2) == G_CONSTANT(w2, 0)

\* The constant G_CTTZ's widened input is ORed with: the bit just above the
\* narrow type.
BitAbove(w, w2) == G_CONSTANT(w2, 2 ^ w)

\* widenScalar on a bit-counting instruction, type index 1, from x's width to
\* w2; u is what the wide zero-undefined count returns for input 0.
widenScalarCTLZ(x, w2) ==
  LET Zext == G_ZEXT(x, w2)
      Ctlz == G_CTLZ(Zext)
      Cst8 == G_CONSTANT(w2, w2 - x.bits)
      Sub == G_SUB(Ctlz, Cst8)
  IN [val |-> G_TRUNC(Sub, x.bits),
      seq |-> <<"G_ZEXT", "G_CTLZ", "G_CONSTANT", "G_SUB", "G_TRUNC">>]

widenScalarCTLZZeroUndef(x, w2, u) ==
  LET Zext == G_ZEXT(x, w2)
      CtlzZu == G_CTLZ_ZERO_UNDEF(Zext, u)
      Cst8 == G_CONSTANT(w2, w2 - x.bits)
      Sub == G_SUB(CtlzZu, Cst8)
  IN [val |-> G_TRUNC(Sub, x.bits),
      seq |-> <<"G_ZEXT", "G_CTLZ_ZERO_UNDEF", "G_CONSTANT", "G_SUB",
                "G_TRUNC">>]

widenScalarCTPOP(x, w2) ==
  LET Zext == G_ZEXT(x, w2)
      Ctpop == G_CTPOP(Zext)
  IN [val |-> G_TRUNC(Ctpop, x.bits),
      seq |-> <<"G_ZEXT", "G_CTPOP", "G_TRUNC">>]

widenScalarCTTZ(x, w2) ==
  LET Zext == G_ZEXT(x, w2)
      Cst == BitAbove(x.bits, w2)
      Or == G_OR(Zext, Cst)
      Cttz == G_CTTZ(Or)
  IN [val |-> G_TRUNC(Cttz, x.bits),
      seq |-> <<"G_ZEXT", "G_CONSTANT", "G_OR", "G_CTTZ", "G_TRUNC">>]

\* G_MERGE_VALUES: the first source is the least significant part.
RECURSIVE MergedVal(_)
MergedVal(parts) ==
  IF parts = <<>> THEN 0
  ELSE parts[1].val + (2 ^ parts[1].bits) * MergedVal(Tail(parts))

G_MERGE_VALUES(parts) ==
  Reg(Len(parts) * parts[1].bits, MergedVal(parts))

\* G_INTTOPTR: the integer's bits as a pointer in address space 0.
G_INTTOPTR(x) == [bits |-> x.bits, val |-> x.val, addrspace |-> 0]

\* Mutant: an incomplete last group is dropped.
NumMergeFloor(k, g) == k \div g

\* The number of merges of g parts that hold k parts.
NumMerge(k, g) == (k + g - 1) \div g

\* Mutant: part i is shifted by its index, not by its bit offset.
ShiftAmountIndex(i, c) == i - 1

\* The bit offset of part i (counted from 1) of width c.
ShiftAmount(i, c) == (i - 1) * c

\* The parts zero-extended to w, shifted to their offsets and ORed together.
RECURSIVE PackBits(_, _, _, _)
PackBits(parts, i, w, ResultReg) ==
  IF i > Len(parts) THEN ResultReg
  ELSE LET ZextInput == G_ZEXT(parts[i], w)
           ShiftAmt == G_CONSTANT(w, ShiftAmount(i, parts[i].bits))
           Shl == G_SHL(ZextInput, ShiftAmt)
           Or == G_OR(ResultReg, Shl)
       IN PackBits(parts, i + 1, w, Or)

\* widenScalar on G_MERGE_VALUES, type index 1, to source width w.  With w at
\* least the result's width the bits are packed at width w and truncated (or
\* converted to the pointer); otherwise the parts are regrouped into merges
\* of width w, the last one padded with the G_IMPLICIT_DEF value undef.
widenScalarMergeValues(parts, w, isPointer, undef) ==
  LET k == Len(parts)
      c == parts[1].bits
      DstSize == k * c
  IN IF w >= DstSize
     THEN LET Or == PackBits(parts, 2, w, G_ZEXT(parts[1], w))
          IN [path |-> "pack", wide |-> Or, groups |-> <<>>,
              val |-> IF w > DstSize THEN G_TRUNC(Or, DstSize)
                      ELSE IF isPointer THEN G_INTTOPTR(Or) ELSE Or]
     ELSE LET g == w \div c
              n == NumMerge(k, g)
              padded == parts \o [i \in 1..(n * g - k) |-> undef]
              groups == [j \in 1..n |-> SubSeq(padded, (j - 1) * g + 1, j * g)]
              merges == [j \in 1..n |-> G_MERGE_VALUES(groups[j])]
              outer == G_MERGE_VALUES(merges)
          IN [path |-> "regroup", wide |-> outer, groups |-> groups,
              val |-> G_TRUNC(outer, DstSize)]

\* G_ANYEXT: the bits above the source's width are undefined, hi is what they
\* happen to be.
G_ANYEXT(x, w, hi) == Reg(w, x.val + hi * 2 ^ x.bits)

AnyHigh(x, w) == 0..(2 ^ (w - x.bits) - 1)

\* G_SEXT_INREG x, k: bit k - 1 of x copied into every higher bit.
G_SEXT_INREG(x, k) ==
  Reg(x.bits, (x.val % 2 ^ k) + Bit(x.val, k - 1) * (2 ^ x.bits - 2 ^ k))

\* G_SEXT: the top bit of x copied into the new bits.
G_SEXT(x, w) ==
  Reg(w, x.val + Bit(x.val, x.bits - 1) * (2 ^ w - 2 ^ x.bits))

\* G_ASHR: the shift that keeps the top bit.
G_ASHR(x, amt) ==
  Reg(x.bits, (x.val \div 2 ^ amt.val)
              + Bit(x.val, x.bits - 1) * (2 ^ x.bits - 2 ^ (x.bits - amt.val)))

\* Mutant: the wide G_SEXT_INREG extends from one bit higher.
widenScalarSEXTINREGOff(x, k, w2, hi) ==
  LET T1 == G_ANYEXT(x, w2, hi)
      T2 == G_SEXT_INREG(T1, k + 1)
  IN [ext |-> T1, imm |-> k + 1, val |-> G_TRUNC(T2, x.bits)]

\* widenScalar on G_SEXT_INREG x, k, type index 0, from x's width to w2.
widenScalarSEXTINREG(x, k, w2, hi) ==
  LET T1 == G_ANYEXT(x, w2, hi)
      T2 == G_SEXT_INREG(T1, k)
      T3 == G_TRUNC(T2, x.bits)
  IN [ext |-> T1, imm |-> k, val |-> T3]

\* G_UNMERGE_VALUES into chunks of n bits, the least significant first.
G_UNMERGE_VALUES(x, n) ==
  [i \in 1..(x.bits \div n) |-> Reg(n, (x.val \div 2 ^ ((i - 1) * n)) % 2 ^ n)]

\* Mutant: the boundary chunk is taken to be the one below.
BoundaryChunkBelow(k, n) == k \div n

\* The chunk (counted from 1) of n bits that holds bit k - 1.
BoundaryChunk(k, n) == (k - 1) \div n + 1

\* narrowScalar on G_SEXT_INREG x, k, type index 0, to chunks of n bits.  With
\* k at most n the narrow G_SEXT_INREG of the truncated x is sign-extended;
\* otherwise x is split, the boundary chunk gets a G_SEXT_INREG of k mod n
\* bits and the chunks above are its G_ASHR by n - 1.  A G_SEXT_INREG of 0
\* bits has no defined result, u is what it happens to give.
narrowScalarSEXTINREG(x, k, n, u) ==
  IF n >= k
  THEN LET T1 == G_TRUNC(x, n)
           T2 == G_SEXT_INREG(T1, k)
           T3 == G_SEXT(T2, x.bits)
       IN [path |-> "single", chunks |-> <<T2>>, val |-> T3]
  ELSE LET Src == G_UNMERGE_VALUES(x, n)
           b == BoundaryChunk(k, n)
           CST2 == G_CONSTANT(n, n - 1)
           T5 == IF k % n = 0 THEN u ELSE G_SEXT_INREG(Src[b], k % n)
           T6 == G_ASHR(T5, CST2)
           Dst == [i \in 1..Len(Src) |->
                     IF i < b THEN Src[i] ELSE IF i = b THEN T5 ELSE T6]
       IN [path |-> "split", chunks |-> Dst, val |-> G_MERGE_VALUES(Dst)]

\* Mutant: both shifts are by k.
SextShiftByK(w, k) == k

\* The amount both shifts of a lowered G_SEXT_INREG of k bits at width w use.
SextShift(w, k) == w - k

\* Helper.lower on G_SEXT_INREG x, k.
lowerSEXTINREG(x, k) ==
  LET CST == G_CONSTANT(x.bits, SextShift(x.bits, k))
      T2 == G_SHL(x, CST)
      T3 == G_ASHR(T2, CST)
  IN [cst |-> CST, val |-> T3, seq |-> <<"G_CONSTANT", "G_SHL", "G_ASHR">>,
      res |-> "Legalized"]

\* A vector value is the sequence of its lanes; a G_EXTRACT or G_INSERT of n
\* lanes at a bit offset that is a multiple of the lane width.
G_EXTRACT(vec, off, n) ==
  SubSeq(vec, off \div vec[1].bits + 1, off \div vec[1].bits + n)

G_INSERT(vec, sub, off) ==
  [i \in 1..Len(vec) |->
     IF i > off \div vec[1].bits /\ i <= off \div vec[1].bits + Len(sub)
     THEN sub[i - off \div vec[1].bits]
     ELSE vec[i]]

\* G_AND on vectors of equal length, lane by lane.
G_AND_lanes(a, b) == [i \in 1..Len(a) |-> G_AND(a[i], b[i])]

\* The type of a slice of n lanes: a scalar for a single lane.
SliceTy(n, e) == [lanes |-> n, bits |-> e, vector |-> n > 1]

\* Mutant: only the full slices are processed.
NumSlicesFloor(L, s) == L \div s

\* The number of slices of s lanes, the last one possibly narrower, that an
\* L-lane vector is split into.
NumSlices(L, s) == (L + s - 1) \div s

\* Slice j (from 1) of fewerElementsVector on G_AND: extract both inputs at
\* the slice's offset, operate, insert into the accumulated result acc.
RECURSIVE FewerSlices(_, _, _, _, _, _)
FewerSlices(Op0, Op1, s, j, acc, seq) ==
  IF j > NumSlices(Len(Op0), s) THEN [val |-> acc, seq |-> seq]
  ELSE LET e == Op0[1].bits
           lane == (j - 1) * s
           n == IF lane + s <= Len(Op0) THEN s ELSE Len(Op0) - lane
           Offset == lane * e
           EXTRACT0 == G_EXTRACT(Op0, Offset, n)
           EXTRACT1 == G_EXTRACT(Op1, Offset, n)
           AND0 == G_AND_lanes(EXTRACT0, EXTRACT1)
           INSERT0 == G_INSERT(acc, AND0, Offset)
           ty == SliceTy(n, e)
       IN FewerSlices(Op0, Op1, s, j + 1, INSERT0,
            seq \o <<[opc |-> "G_EXTRACT", src |-> "Op0", off |-> Offset, ty |-> ty],
                     [opc |-> "G_EXTRACT", src |-> "Op1", off |-> Offset, ty |-> ty],
                     [opc |-> "G_AND", src |-> "slices", off |-> Offset, ty |-> ty],
                     [opc |-> "G_INSERT", src |-> "acc", off |-> Offset, ty |-> ty]>>)

\* Helper.fewerElementsVector(*And, 0, NarrowTy) with NarrowTy of s lanes;
\* undef is the G_IMPLICIT_DEF the result is accumulated into.
fewerElementsVectorAnd(Op0, Op1, s, undef) ==
  FewerSlices(Op0, Op1, s, 1, undef, <<>>)

\* G_CONCAT_VECTORS of a first vector and parts - 1 copies of a second one.
RECURSIVE G_CONCAT_VECTORS(_, _, _)
G_CONCAT_VECTORS(first, rest, parts) ==
  IF parts <= 1 THEN first
  ELSE G_CONCAT_VECTORS(first, rest, parts - 1) \o rest

\* Mutant: the undefined vectors come first, the input last.
moreElementsVectorSrcUndefFirst(Val, undef, parts) ==
  G_CONCAT_VECTORS(undef, undef, parts - 1) \o Val

\* An input of moreElementsVector padded to parts times its lane count: the
\* input followed by the same G_IMPLICIT_DEF of the input's type, repeated.
moreElementsVectorSrc(Val, undef, parts) ==
  G_CONCAT_VECTORS(Val, undef, parts)

\* Helper.moreElementsVector(*And, 0, MoreTy) with MoreTy of parts times the
\* lanes of the operands; undef0 and undef1 are the two G_IMPLICIT_DEFs.
moreElementsVectorAnd(Val0, Val1, parts, undef0, undef1) ==
  LET L == Len(Val0)
      e == Val0[1].bits
      CONCAT0 == moreElementsVectorSrc(Val0, undef0, parts)
      CONCAT1 == moreElementsVectorSrc(Val1, undef1, parts)
      AND0 == G_AND_lanes(CONCAT0, CONCAT1)
  IN [wide |-> AND0,
      val |-> G_EXTRACT(AND0, 0, L),
      seq |-> <<[opc |-> "G_IMPLICIT_DEF", src |-> "none", lanes |-> L],
                [opc |-> "G_CONCAT_VECTORS", src |-> "Val0", lanes |-> Len(CONCAT0)],
                [opc |-> "G_IMPLICIT_DEF", src |-> "none", lanes |-> L],
                [opc |-> "G_CONCAT_VECTORS", src |-> "Val1", lanes |-> Len(CONCAT1)],
                [opc |-> "G_AND", src |-> "CONCAT", lanes |-> Len(AND0)],
                [opc |-> "G_EXTRACT", src |-> "AND", lanes |-> L, off |-> 0]>>]

\* The fast-math flags of MachineInstr::MIFlag the test uses.
MIFlags == {"FmNsz", "FmArcp", "FmNoInfs"}

\* Mutant: the flags of the instruction defining the operand are added.
FSubFlagsWithSrc(MI, Src) == MI.flags \cup Src.flags

\* The flags lower() passes to the G_FSUB it builds for the G_FNEG MI, whose
\* operand is defined by Src.
FSubFlags(MI, Src) == MI.flags

\* Helper.lower(*FNeg, 0) in a block whose instructions are insts, the G_FNEG
\* being the last one and at is the index of the instruction defining its
\* operand: the G_FNEG is replaced by G_FCONSTANT -0.0 and G_FSUB.
lowerFNEG(insts, at) ==
  LET MI == insts[Len(insts)]
      Src == insts[at]
  IN SubSeq(insts, 1, Len(insts) - 1)
       \o <<[opc |-> "G_FCONSTANT", flags |-> {}, src |-> 0],
            [opc |-> "G_FSUB", flags |-> FSubFlags(MI, Src), src |-> MI.src]>>

\* A virtual register by the name the test's CHECK lines give it, the
\* predecessor p and the slice j it belongs to (0 where there is none).
VReg(name, p, j) == [name |-> name, p |-> p, j |-> j]

\* An instruction of a block: its opcode, the register it defines, the
\* registers it uses, the blocks of its phi operands, and for G_EXTRACT and
\* G_INSERT the bit offset and the number of lanes of the part.
Instr(opc, def, uses, mbbs, off, lanes) ==
  [opc |-> opc, def |-> def, uses |-> uses, mbbs |-> mbbs, off |-> off,
   lanes |-> lanes]

NoReg == VReg("none", 0, 0)

isTerminator(I) == I.opc \in {"G_BR", "G_BRCOND"}

isPHI(I) == I.opc = "G_PHI"

\* Mutant: the position right after the first instruction of the block.
FirstAfterOnePHI(MBB) == 2

\* MBB->getFirstNonPHI(): the index of the first instruction that is no phi.
FirstNonPHI(MBB) ==
  IF \A i \in 1..Len(MBB) : isPHI(MBB[i]) THEN Len(MBB) + 1
  ELSE CHOOSE i \in 1..Len(MBB) :
         /\ ~isPHI(MBB[i])
         /\ \A k \in 1..(i - 1) : isPHI(MBB[k])

\* OpMBB.getFirstTerminator().
FirstTerminator(MBB) ==
  IF \A i \in 1..Len(MBB) : ~isTerminator(MBB[i]) THEN Len(MBB) + 1
  ELSE CHOOSE i \in 1..Len(MBB) :
         /\ isTerminator(MBB[i])
         /\ \A k \in 1..(i - 1) : ~isTerminator(MBB[k])

\* The builder inserts the instructions new before position at.
InsertBefore(MBB, at, new) ==
  SubSeq(MBB, 1, at - 1) \o new \o SubSeq(MBB, at, Len(MBB))

\* The lanes of slice j of an L-lane vector split by s.
SliceLanes(L, s, j) == IF j * s <= L THEN s ELSE L - (j - 1) * s

\* The extracts of the slices of the value coming in from predecessor p.
PhiExtracts(Src, p, L, s, e) ==
  [j \in 1..NumSlices(L, s) |->
     Instr("G_EXTRACT", VReg("EXTRACT", p, j), <<Src>>, <<>>,
           (j - 1) * s * e, SliceLanes(L, s, j))]

\* One phi per slice over the edges of the phi MI.
SlicePhis(MI, L, s) ==
  [j \in 1..NumSlices(L, s) |->
     Instr("G_PHI", VReg("PHI", 0, j),
           [k \in 1..Len(MI.uses) |-> VReg("EXTRACT", MI.mbbs[k], j)],
           MI.mbbs, 0, SliceLanes(L, s, j))]

\* The re-assembly of the value MI defined: a G_IMPLICIT_DEF and one G_INSERT
\* per slice, the last one defining the original register.
PhiRebuild(MI, L, s, e) ==
  <<Instr("G_IMPLICIT_DEF", VReg("INSERT", 0, 0), <<>>, <<>>, 0, L)>> \o
  [j \in 1..NumSlices(L, s) |->
     Instr("G_INSERT",
           IF j = NumSlices(L, s) THEN MI.def ELSE VReg("INSERT", 0, j),
           <<VReg("INSERT", 0, j - 1), VReg("PHI", 0, j)>>, <<>>,
           (j - 1) * s * e, SliceLanes(L, s, j))]

\* Helper.fewerElementsVector(*Phi, 0, NarrowTy) on the phi at position at of
\* block b of the function MF, an L-lane vector of e-bit lanes split by s: the
\* slice phis are built in front of the phi, the re-assembly at the first
\* non-phi of the block, the extracts in front of the first terminator of
\* each predecessor, and the phi is erased.
fewerElementsVectorPhi(MF, b, at, L, s, e) ==
  LET MI == MF[b][at]
      WithPhis == InsertBefore(MF[b], at, SlicePhis(MI, L, s))
      WithRebuild == InsertBefore(WithPhis, FirstNonPHI(WithPhis),
                                  PhiRebuild(MI, L, s, e))
      Erased == SelectSeq(WithRebuild, LAMBDA I : I # MI)
  IN [k \in 1..Len(MF) |->
        IF k = b THEN Erased
        ELSE IF \E o \in 1..Len(MI.mbbs) : MI.mbbs[o] = k
        THEN InsertBefore(MF[k], FirstTerminator(MF[k]),
               PhiExtracts(MI.uses[CHOOSE o \in 1..Len(MI.mbbs) : MI.mbbs[o] = k],
                           k, L, s, e))
        ELSE MF[k]]

\* The engine's variables while no function is being legalized.
EngineIdle ==
  /\ st = [i \in Ids |-> "free"]
  /\ kind = [i \in Ids |-> "G"]
  /\ ops = [i \in Ids |-> {}]
  /\ se = [i \in Ids |-> FALSE]
  /\ sig = [i \in Ids |-> "s8"]
  /\ table = [s \in AllSigs |-> "Legal"]
  /\ blocks = 1 /\ NumBlocks = 1
  /\ InstList = <<>> /\ ArtifactList = <<>> /\ RetryList = <<>>
  /\ NumArtifacts = 0 /\ Changed = FALSE /\ pc = "Idle"
  /\ reported = {} /\ ev = [a |-> "init", mi |-> {}, k |-> "G"]
  /\ newArts = {} /\ pushed = {}

engine == <<st, kind, ops, se, sig, table, blocks, NumBlocks, InstList,
            ArtifactList, RetryList, NumArtifacts, Changed, pc, reported, ev,
            newArts, pushed>>

\* The tests that lower a bit-counting instruction.
LowerTests == {"LowerBitCountingCTTZ0", "LowerBitCountingCTTZ1",
               "LowerBitCountingCTTZ2", "LowerBitCountingCTLZ0",
               "LowerBitCountingCTLZLibcall", "LowerBitCountingCTLZ1"}

\* The tests that widen the source of a bit-counting instruction.
WidenBitTests == {"WidenBitCountingCTLZ", "WidenBitCountingCTLZZeroUndef",
                  "WidenBitCountingCTPOP", "WidenBitCountingCTTZ"}

\* The merges built: k parts of width c with at most MaxMergeBits bits in
\* all, and the source widths requested: multiples of c below the total
\* width, the total width, one more and its double.
MergeShapes ==
  {kc \in (2..MaxMergeBits) \X (1..MaxMergeBits) : kc[1] * kc[2] <= MaxMergeBits}

MergeWidths(k, c) ==
  {g * c : g \in 2..k} \union {k * c + 1, 2 * k * c}

Merges(k, c) == [1..k -> Values(c)]

\* The widenings of G_SEXT_INREG tried: the small widths.
SextWidenings == {ww \in Widenings : ww[2] <= 2 * MaxSmallBits}

\* The narrowings of G_SEXT_INREG tried: <<W, k, n>> with k at most n < W, or
\* with n < k and W a multiple of n.
SextNarrowings ==
  {wkn \in (2..MaxMergeBits) \X (1..MaxMergeBits) \X (2..MaxMergeBits) :
     /\ wkn[2] <= wkn[1] /\ wkn[3] < wkn[1]
     /\ wkn[3] >= wkn[2] \/ wkn[1] % wkn[3] = 0}

\* The vectors tried: L lanes of e bits, at most MaxVectorBits bits in all.
VectorShapes ==
  {Le \in (2..MaxVectorBits) \X (1..MaxVectorBits) : Le[1] * Le[2] <= MaxVectorBits}

Vectors(L, e) == [1..L -> Values(e)]

\* The vectors padded: at most MaxPadBits bits, to 2..MaxParts times their
\* lane count.
PadShapes == {Le \in VectorShapes : Le[1] * Le[2] <= MaxPadBits}

\* A predecessor block of the test: the incoming values, then one or two
\* terminators.
PredMBB(p, brcond) ==
  <<Instr("G_IMPLICIT_DEF", VReg("VAL", p, 0), <<>>, <<>>, 0, 0),
    Instr("G_CONSTANT", VReg("OTHERVAL", p, 0), <<>>, <<>>, 0, 0)>> \o
  (IF brcond THEN <<Instr("G_BRCOND", NoReg, <<>>, <<>>, 0, 0)>> ELSE <<>>) \o
  <<Instr("G_BR", NoReg, <<>>, <<>>, 0, 0)>>

\* A phi of the join block over the np predecessors.
JoinPhi(name, val, np) ==
  Instr("G_PHI", VReg(name, 0, 0), [p \in 1..np |-> VReg(val, p, 0)],
        [p \in 1..np |-> p], 0, 0)

\* The join block: other phis before and after the phi to split, then a use.
EndMBB(np, before, after, use) ==
  (IF before THEN <<JoinPhi("OTHER_PHI0", "OTHERVAL", np)>> ELSE <<>>) \o
  <<JoinPhi("PHI_DST", "VAL", np)>> \o
  (IF after THEN <<JoinPhi("OTHER_PHI", "OTHERVAL", np)>> ELSE <<>>) \o
  (IF use THEN <<Instr("G_AND", VReg("USE_OP", 0, 0),
                       <<VReg("PHI_DST", 0, 0), VReg("PHI_DST", 0, 0)>>,
                       <<>>, 0, 0)>>
   ELSE <<>>)

\* The tests build one instruction on operands of the narrow type.
HelperInit ==
  /\ EngineIdle
  /\ \/ \E t \in {"WidenUADDO", "WidenUSUBO"}, ww \in Widenings :
          \E x \in Values(ww[1]), y \in Values(ww[1]) :
            calc = [test |-> t, w2 |-> ww[2], x |-> x, y |-> y,
                    built |-> TRUE]
     \/ \E t \in LowerTests, w \in LowerWidths :
          \E x \in Values(w) : calc = [test |-> t, x |-> x, built |-> TRUE]
     \/ \E kc \in MergeShapes :
          \E parts \in Merges(kc[1], kc[2]), w \in MergeWidths(kc[1], kc[2]) :
            calc = [test |-> "LowerMergeValues", parts |-> parts, w |-> w,
                    built |-> TRUE]
     \/ \E kc \in MergeShapes :
          \E parts \in Merges(kc[1], kc[2]) :
            calc = [test |-> "WidenScalarMergeValuesPointer", parts |-> parts,
                    w |-> kc[1] * kc[2], built |-> TRUE]
     \/ \E ww \in SextWidenings :
          \E x \in Values(ww[1]), k \in 1..ww[1] :
            calc = [test |-> "WidenSEXTINREG", w2 |-> ww[2], x |-> x, k |-> k,
                    built |-> TRUE]
     \/ \E wkn \in SextNarrowings :
          \E x \in Values(wkn[1]) :
            calc = [test |-> IF wkn[3] >= wkn[2] THEN "NarrowSEXTINREG"
                             ELSE "NarrowSEXTINREG2",
                    x |-> x, k |-> wkn[2], n |-> wkn[3], built |-> TRUE]
     \/ \E w \in LowerWidths :
          \E x \in Values(w), k \in 1..w :
            calc = [test |-> "LowerSEXTINREG", x |-> x, k |-> k,
                    built |-> TRUE]
     \/ \E Le \in VectorShapes :
          \E Op0 \in Vectors(Le[1], Le[2]), Op1 \in Vectors(Le[1], Le[2]),
             s \in 1..(Le[1] - 1) :
            calc = [test |-> "FewerElementsAnd", Op0 |-> Op0, Op1 |-> Op1,
                    s |-> s, built |-> TRUE]
     \/ \E Le \in PadShapes :
          \E Val0 \in Vectors(Le[1], Le[2]), Val1 \in Vectors(Le[1], Le[2]),
             parts \in 2..MaxParts :
            calc = [test |-> "MoreElementsAnd", Val0 |-> Val0, Val1 |-> Val1,
                    parts |-> parts, built |-> TRUE]
     \/ \E P \in SUBSET MIFlags, F \in SUBSET MIFlags, Opc \in {"G_FADD", "COPY"} :
          calc = [test |-> "LowerFNEG",
                  insts |-> <<[opc |-> Opc,
                               flags |-> IF Opc = "COPY" THEN {} ELSE P,
                               src |-> 0],
                              [opc |-> "G_FNEG", flags |-> F, src |-> 1]>>,
                  built |-> TRUE]
     \/ \E Le \in VectorShapes, br \in [1..2 -> BOOLEAN],
           before \in BOOLEAN, after \in BOOLEAN, use \in BOOLEAN :
          \E s \in 1..(Le[1] - 1) :
            calc = [test |-> "FewerElementsPhi",
                    MF |-> <<PredMBB(1, br[1]), PredMBB(2, br[2]),
                             EndMBB(2, before, after, use)>>,
                    at |-> IF before THEN 2 ELSE 1,
                    L |-> Le[1], e |-> Le[2], s |-> s, built |-> TRUE]
     \/ \E t \in WidenBitTests, ww \in Widenings :
          \E x \in Values(ww[1]) :
            calc = [test |-> t, w2 |-> ww[2], x |-> x, built |-> TRUE]

\* Helper.widenScalar(*MIBUAddO, 0, s16).
WidenUADDO ==
  /\ calc.test = "WidenUADDO" /\ calc.built
  /\ calc' = [test |-> calc.test, w2 |-> calc.w2, x |-> calc.x, y |-> calc.y,
              built |-> FALSE,
              out |-> widenScalarUADDO(calc.x, calc.y, calc.w2)]
  /\ UNCHANGED engine

\* Helper.widenScalar(*MIBUSUBO, 0, s16).
WidenUSUBO ==
  /\ calc.test = "WidenUSUBO" /\ calc.built
  /\ calc' = [test |-> calc.test, w2 |-> calc.w2, x |-> calc.x, y |-> calc.y,
              built |-> FALSE,
              out |-> widenScalarUSUBO(calc.x, calc.y, calc.w2)]
  /\ UNCHANGED engine

\* Helper.lower(*MIBCTTZ, 0, ...) or Helper.lower(*MIBCTLZ, 0, ...) of test
\* t, which leaves out.
LowerBitCounting(t, out) ==
  /\ calc.test = t /\ calc.built
  /\ calc' = [test |-> t, x |-> calc.x, built |-> FALSE, out |-> out]
  /\ UNCHANGED engine

\* In each test u is what a zero-undefined count returns for input 0 (the
\* lowering records the count it built as czu).
LowerBitCountingCTTZ0 ==
  /\ calc.test = "LowerBitCountingCTTZ0"
  /\ \E u \in UndefinedAtZero(calc.x, calc.x.bits) :
       LowerBitCounting("LowerBitCountingCTTZ0",
                        lowerCTTZ(calc.x, Info("LowerBitCountingCTTZ0"), u))

LowerBitCountingCTTZ1 ==
  /\ calc.test = "LowerBitCountingCTTZ1"
  /\ \E u \in UndefinedAtZero(calc.x, calc.x.bits) :
       LowerBitCounting("LowerBitCountingCTTZ1",
                        lowerCTTZ(calc.x, Info("LowerBitCountingCTTZ1"), u))

LowerBitCountingCTTZ2 ==
  /\ calc.test = "LowerBitCountingCTTZ2"
  /\ \E u \in UndefinedAtZero(calc.x, calc.x.bits) :
       LowerBitCounting("LowerBitCountingCTTZ2",
                        lowerCTTZ(calc.x, Info("LowerBitCountingCTTZ2"), u))

LowerBitCountingCTLZ0 ==
  /\ calc.test = "LowerBitCountingCTLZ0"
  /\ \E u \in UndefinedAtZero(calc.x, calc.x.bits) :
       LowerBitCounting("LowerBitCountingCTLZ0",
                        lowerCTLZ(calc.x, Info("LowerBitCountingCTLZ0"), u))

LowerBitCountingCTLZLibcall ==
  /\ calc.test = "LowerBitCountingCTLZLibcall"
  /\ \E u \in UndefinedAtZero(calc.x, calc.x.bits) :
       LowerBitCounting("LowerBitCountingCTLZLibcall",
                        lowerCTLZ(calc.x, Info("LowerBitCountingCTLZLibcall"),
                                  u))

LowerBitCountingCTLZ1 ==
  /\ calc.test = "LowerBitCountingCTLZ1"
  /\ \E u \in UndefinedAtZero(calc.x, calc.x.bits) :
       LowerBitCounting("LowerBitCountingCTLZ1",
                        lowerCTLZ(calc.x, Info("LowerBitCountingCTLZ1"), u))

\* Helper.widenScalar(*MIBCTLZ, 1, s16) and the like: test t leaves out.
WidenBitCounting(t, out) ==
  /\ calc.test = t /\ calc.built
  /\ calc' = [test |-> t, w2 |-> calc.w2, x |-> calc.x, built |-> FALSE,
              out |-> out]
  /\ UNCHANGED engine

WidenBitCountingCTLZ ==
  WidenBitCounting("WidenBitCountingCTLZ", widenScalarCTLZ(calc.x, calc.w2))

WidenBitCountingCTLZZeroUndef ==
  /\ calc.test = "WidenBitCountingCTLZZeroUndef"
  /\ \E u \in UndefinedAtZero(calc.x, calc.w2) :
       WidenBitCounting("WidenBitCountingCTLZZeroUndef",
                        widenScalarCTLZZeroUndef(calc.x, calc.w2, u))

WidenBitCountingCTPOP ==
  WidenBitCounting("WidenBitCountingCTPOP", widenScalarCTPOP(calc.x, calc.w2))

WidenBitCountingCTTZ ==
  WidenBitCounting("WidenBitCountingCTTZ", widenScalarCTTZ(calc.x, calc.w2))

\* Helper.widenScalar(*Merge0, 1, S9) and the like, on a merge into a scalar.
LowerMergeValues ==
  /\ calc.test = "LowerMergeValues" /\ calc.built
  /\ \E undef \in Values(calc.parts[1].bits) :
       calc' = [test |-> calc.test, parts |-> calc.parts, w |-> calc.w,
                built |-> FALSE, undef |-> undef,
                out |-> widenScalarMergeValues(calc.parts, calc.w, FALSE,
                                               undef)]
  /\ UNCHANGED engine

\* Helper.widenScalar(*Merge, 1, S64) on a merge into a pointer of that width.
WidenScalarMergeValuesPointer ==
  /\ calc.test = "WidenScalarMergeValuesPointer" /\ calc.built
  /\ \E undef \in Values(calc.parts[1].bits) :
       calc' = [test |-> calc.test, parts |-> calc.parts, w |-> calc.w,
                built |-> FALSE, undef |-> undef,
                out |-> widenScalarMergeValues(calc.parts, calc.w, TRUE,
                                               undef)]
  /\ UNCHANGED engine

\* Helper.widenScalar(*MIB, 0, LLT::scalar(64)) on G_SEXT_INREG.
WidenSEXTINREG ==
  /\ calc.test = "WidenSEXTINREG" /\ calc.built
  /\ \E hi \in AnyHigh(calc.x, calc.w2) :
       calc' = [test |-> calc.test, w2 |-> calc.w2, x |-> calc.x,
                k |-> calc.k, built |-> FALSE,
                out |-> widenScalarSEXTINREG(calc.x, calc.k, calc.w2, hi)]
  /\ UNCHANGED engine

\* Helper.narrowScalar(*MIB, 0, LLT::scalar(10)): k fits in the narrow type.
NarrowSEXTINREG ==
  /\ calc.test = "NarrowSEXTINREG" /\ calc.built
  /\ \E u \in Values(calc.n) :
       calc' = [test |-> calc.test, x |-> calc.x, k |-> calc.k, n |-> calc.n,
                built |-> FALSE,
                out |-> narrowScalarSEXTINREG(calc.x, calc.k, calc.n, u)]
  /\ UNCHANGED engine

\* Helper.narrowScalar(*MIB, 0, LLT::scalar(8)): k spans several chunks.
NarrowSEXTINREG2 ==
  /\ calc.test = "NarrowSEXTINREG2" /\ calc.built
  /\ \E u \in Values(calc.n) :
       calc' = [test |-> calc.test, x |-> calc.x, k |-> calc.k, n |-> calc.n,
                built |-> FALSE,
                out |-> narrowScalarSEXTINREG(calc.x, calc.k, calc.n, u)]
  /\ UNCHANGED engine

\* Helper.lower(*MIB, 0) on G_SEXT_INREG.
LowerSEXTINREG ==
  /\ calc.test = "LowerSEXTINREG" /\ calc.built
  /\ calc' = [test |-> calc.test, x |-> calc.x, k |-> calc.k, built |-> FALSE,
              out |-> lowerSEXTINREG(calc.x, calc.k)]
  /\ UNCHANGED engine

\* Helper.fewerElementsVector(*And, 0, V2S32).
FewerElementsAnd ==
  /\ calc.test = "FewerElementsAnd" /\ calc.built
  /\ \E undef \in Vectors(Len(calc.Op0), calc.Op0[1].bits) :
       calc' = [test |-> calc.test, Op0 |-> calc.Op0, Op1 |-> calc.Op1,
                s |-> calc.s, built |-> FALSE,
                out |-> fewerElementsVectorAnd(calc.Op0, calc.Op1, calc.s,
                                               undef)]
  /\ UNCHANGED engine

\* Helper.moreElementsVector(*And, 0, v6s32).
MoreElementsAnd ==
  /\ calc.test = "MoreElementsAnd" /\ calc.built
  /\ \E undef0 \in Vectors(Len(calc.Val0), calc.Val0[1].bits),
        undef1 \in Vectors(Len(calc.Val0), calc.Val0[1].bits) :
       calc' = [test |-> calc.test, Val0 |-> calc.Val0, Val1 |-> calc.Val1,
                parts |-> calc.parts, built |-> FALSE,
                out |-> moreElementsVectorAnd(calc.Val0, calc.Val1, calc.parts,
                                              undef0, undef1)]
  /\ UNCHANGED engine

\* Helper.lower(*FNeg0, 0) and Helper.lower(*FNeg1, 0).
LowerFNEG ==
  /\ calc.test = "LowerFNEG" /\ calc.built
  /\ calc' = [test |-> calc.test, insts |-> calc.insts, built |-> FALSE,
              out |-> lowerFNEG(calc.insts, 1)]
  /\ UNCHANGED engine

\* Helper.fewerElementsVector(*Phi, 0, v2s32).
FewerElementsPhi ==
  /\ calc.test = "FewerElementsPhi" /\ calc.built
  /\ calc' = [test |-> calc.test, MF |-> calc.MF, at |-> calc.at,
              L |-> calc.L, e |-> calc.e, s |-> calc.s, built |-> FALSE,
              out |-> fewerElementsVectorPhi(calc.MF, 3, calc.at, calc.L,
                                             calc.s, calc.e)]
  /\ UNCHANGED engine

HelperNext ==
  \/ WidenUADDO
  \/ WidenUSUBO
  \/ LowerBitCountingCTTZ0
  \/ LowerBitCountingCTTZ1
  \/ LowerBitCountingCTTZ2
  \/ LowerBitCountingCTLZ0
  \/ LowerBitCountingCTLZLibcall
  \/ LowerBitCountingCTLZ1
  \/ WidenBitCountingCTLZ
  \/ WidenBitCountingCTLZZeroUndef
  \/ WidenBitCountingCTPOP
  \/ WidenBitCountingCTTZ
  \/ LowerMergeValues
  \/ WidenScalarMergeValuesPointer
  \/ WidenSEXTINREG
  \/ NarrowSEXTINREG
  \/ NarrowSEXTINREG2
  \/ LowerSEXTINREG
  \/ FewerElementsAnd
  \/ MoreElementsAnd
  \/ LowerFNEG
  \/ FewerElementsPhi

HelperSpec == HelperInit /\ [][HelperNext]_vars

\* The instruction has been widened.
Widened(t) == calc.test = t /\ ~calc.built

\* C20: widening G_UADDO or G_USUBO zero-extends both operands, computes the
\* wide sum or difference and sets the carry where the wide result differs
\* from itself masked to the narrow width; for every pair of narrow inputs
\* the carry is the unsigned overflow or borrow of the operation at the
\* narrow width and the truncated wide result is the narrow result; 255 + 255
\* widened from 8 to 16 bits gives carry.
C20_WidenedCarryIsNative ==
  /\ Widened("WidenUADDO") =>
       /\ calc.out = G_UADDO(calc.x, calc.y)
       /\ calc.out.carry = (calc.x.val + calc.y.val > 2 ^ calc.x.bits - 1)
       /\ (calc.x = Reg(8, 255) /\ calc.y = Reg(8, 255) /\ calc.w2 = 16)
            => calc.out.carry /\ calc.out.res = Reg(8, 254)
  /\ Widened("WidenUSUBO") =>
       /\ calc.out = G_USUBO(calc.x, calc.y)
       /\ calc.out.carry = (calc.x.val < calc.y.val)

\* 255 + 255 was widened from s8 to s16: the carry is set.
C20_Witness ==
  /\ Widened("WidenUADDO")
  /\ calc.x = Reg(8, 255) /\ calc.y = Reg(8, 255) /\ calc.w2 = 16
  /\ calc.out.carry

\* The instruction of test t has been lowered.
Lowered(t) == calc.test = t /\ ~calc.built

\* The number of zero bits below the lowest set bit of x, the width for 0.
TrailingZeros(x) ==
  CHOOSE k \in 0..x.bits :
    /\ x.val % (2 ^ k) = 0
    /\ k < x.bits => x.val % (2 ^ (k + 1)) # 0

\* The number of zero bits above the highest set bit of x, the width for 0.
LeadingZeros(x) ==
  CHOOSE k \in 0..x.bits :
    /\ x.val < 2 ^ (x.bits - k)
    /\ k < x.bits => x.val >= 2 ^ (x.bits - k - 1)

\* Test t produced the zero-undefined count zu, the compare with 0 and the
\* select, and its value is the width for input 0 and the count otherwise.
ZeroGuarded(t, zu) ==
  Lowered(t) =>
    /\ calc.out.res = "Legalized"
    /\ calc.out.seq =
         <<zu, "G_CONSTANT", "G_CONSTANT", "G_ICMP eq", "G_SELECT">>
    /\ calc.x.val = 0 => calc.out.val = Reg(calc.x.bits, calc.x.bits)
    /\ calc.x.val # 0 => calc.out.val = calc.out.czu

\* C21: lowering G_CTTZ or G_CTLZ at width N when only its ZERO_UNDEF variant
\* is available produces the zero-undefined count, a compare of the input
\* with 0 and a select of the constant N for input 0 and of the count
\* otherwise: input 0 yields N, a nonzero input yields the zero-undefined
\* count, and a library-call ZERO_UNDEF variant gives the same sequence and
\* value as a natively legal one.
C21_ZeroInputYieldsWidth ==
  /\ ZeroGuarded("LowerBitCountingCTTZ0", "G_CTTZ_ZERO_UNDEF")
  /\ ZeroGuarded("LowerBitCountingCTLZ0", "G_CTLZ_ZERO_UNDEF")
  /\ ZeroGuarded("LowerBitCountingCTLZLibcall", "G_CTLZ_ZERO_UNDEF")
  /\ Lowered("LowerBitCountingCTTZ0") =>
       calc.out.val.val = TrailingZeros(calc.x)
  /\ Lowered("LowerBitCountingCTLZLibcall") =>
       /\ calc.out.val.val = LeadingZeros(calc.x)
       /\ calc.out =
            lowerCTLZ(calc.x, legalFor("G_CTLZ_ZERO_UNDEF"), calc.out.czu)

\* The library routine returned 3 for input 0 at s8; the lowering gives 8.
C21_Witness ==
  /\ Lowered("LowerBitCountingCTLZLibcall")
  /\ calc.x = Reg(8, 0) /\ calc.out.czu = Reg(8, 3)
  /\ calc.out.val = Reg(8, 8)

\* C22: lowering G_CTTZ at width N when only G_CTLZ is legal returns
\* Legalized after producing exactly xor(x, -1), add(x, -1), and, ctlz,
\* sub(N, ctlz) (and the two constants they use), nothing is left to do, and
\* the value N - ctlz(~x & (x - 1)) is the number of trailing zeros of x for
\* every N-bit x, N for x = 0.
C22_ViaCtlzCountsTrailingZeros ==
  Lowered("LowerBitCountingCTTZ1") =>
    /\ calc.out.res = "Legalized"
    /\ SelectSeq(calc.out.seq, LAMBDA o : o # "G_CONSTANT") =
         <<"G_XOR", "G_ADD", "G_AND", "G_CTLZ", "G_SUB">>
    /\ ~ENABLED HelperNext
    /\ calc.out.val.val = calc.x.bits - G_CTLZ(MaskedValue(calc.x)).val
    /\ calc.out.val.val = TrailingZeros(calc.x)
    /\ calc.x.val = 0 => calc.out.val.val = calc.x.bits

\* G_CTTZ of 0 and of 40 (three trailing zeros) at s8 were lowered.
C22_Witness ==
  /\ Lowered("LowerBitCountingCTTZ1")
  /\ \/ calc.x = Reg(8, 0) /\ calc.out.val = Reg(8, 8)
     \/ calc.x = Reg(8, 40) /\ calc.out.val = Reg(8, 3)

\* A trailing-zero expansion that computes the masked value has run.
MaskedBuilt ==
  Lowered("LowerBitCountingCTTZ1") \/ Lowered("LowerBitCountingCTTZ2")

\* C23 as stated: the masked value ~x & (x - 1) equals x & -x for every
\* N-bit x.
C23_MaskIsLowestSetBit ==
  MaskedBuilt => calc.out.masked = LowestSetBit(calc.x)

\* C23: the masked value ~x & (x - 1) is one less (modulo 2^N) than x & -x,
\* that is a one in exactly the positions below the lowest set bit of x, and
\* it never equals x & -x.
C23_MaskIsBelowLowestSetBit ==
  MaskedBuilt =>
    /\ calc.out.masked = G_SUB(LowestSetBit(calc.x), G_CONSTANT(calc.x.bits, 1))
    /\ calc.out.masked.val = 2 ^ TrailingZeros(calc.x) - 1
    /\ calc.out.masked # LowestSetBit(calc.x)

\* x = 40 at s8: ~x & (x - 1) is 7 while x & -x is 8.
C23_Witness ==
  /\ Lowered("LowerBitCountingCTTZ1")
  /\ calc.x = Reg(8, 40)
  /\ calc.out.masked = Reg(8, 7) /\ LowestSetBit(calc.x) = Reg(8, 8)

\* C24: lowering G_CTTZ at width N when only G_CTPOP is legal produces
\* ctpop(~x & (x - 1)), which is the number of trailing zeros of x for every
\* N-bit x, N for x = 0.
C24_ViaCtpopCountsTrailingZeros ==
  Lowered("LowerBitCountingCTTZ2") =>
    /\ calc.out.res = "Legalized"
    /\ SelectSeq(calc.out.seq, LAMBDA o : o # "G_CONSTANT") =
         <<"G_XOR", "G_ADD", "G_AND", "G_CTPOP">>
    /\ calc.out.masked =
         G_AND(G_XOR(calc.x, G_CONSTANT(calc.x.bits, -1)),
               G_SUB(calc.x, G_CONSTANT(calc.x.bits, 1)))
    /\ calc.out.val = G_CTPOP(calc.out.masked)
    /\ calc.out.val.val = TrailingZeros(calc.x)
    /\ calc.x.val = 0 => calc.out.val.val = calc.x.bits

\* G_CTTZ of 0 and of 96 (five trailing zeros) at s8 were lowered.
C24_Witness ==
  /\ Lowered("LowerBitCountingCTTZ2")
  /\ \/ calc.x = Reg(8, 0) /\ calc.out.val = Reg(8, 8)
     \/ calc.x = Reg(8, 96) /\ calc.out.val = Reg(8, 5)

IsPowerOf2(n) == \E e \in 0..n : n = 2 ^ e

C26_WidenedCountIsNative ==
  /\ Widened("WidenBitCountingCTPOP") =>
       /\ calc.out.val = G_CTPOP(calc.x)
       /\ calc.out.seq = <<"G_ZEXT", "G_CTPOP", "G_TRUNC">>
  /\ Widened("WidenBitCountingCTLZ") =>
       /\ calc.out.val = G_CTLZ(calc.x)
       /\ calc.out.val.val = LeadingZeros(calc.x)
       /\ calc.out.val.val =
            (G_CTLZ(G_ZEXT(calc.x, calc.w2)).val - (calc.w2 - calc.x.bits))
              % 2 ^ calc.x.bits
  /\ Widened("WidenBitCountingCTLZZeroUndef") =>
       /\ calc.x.val # 0 => calc.out.val = G_CTLZ(calc.x)
       /\ calc.out.val \in Values(calc.x.bits)
  /\ Widened("WidenBitCountingCTTZ") =>
       /\ calc.out.val = G_CTTZ(calc.x)
       /\ calc.out.val.val = TrailingZeros(calc.x)
       /\ calc.x.val = 0 => calc.out.val.val = calc.x.bits

\* G_CTTZ of 0 widened from s8 to s16 gives 8.
C26_Witness ==
  /\ Widened("WidenBitCountingCTTZ")
  /\ calc.x = Reg(8, 0) /\ calc.w2 = 16
  /\ calc.out.val = Reg(8, 8)

\* The merge of a merge test has been widened.
MergeWidened ==
  calc.test \in {"LowerMergeValues", "WidenScalarMergeValuesPointer"}
    /\ ~calc.built

\* The parts were regrouped in order into the fewest merges of w/c parts,
\* only the last group padded, with the undefined value.
Regrouped ==
  LET k == Len(calc.parts)
      c == calc.parts[1].bits
      g == calc.w \div c
      groups == calc.out.groups
      n == Len(groups)
  IN /\ calc.out.path = "regroup"
     /\ n * g >= k /\ (n - 1) * g < k
     /\ \A j \in 1..n :
          /\ Len(groups[j]) = g
          /\ \A i \in 1..g :
               groups[j][i] = IF (j - 1) * g + i <= k
                              THEN calc.parts[(j - 1) * g + i]
                              ELSE calc.undef
     /\ calc.out.wide.bits = n * calc.w
     /\ calc.out.wide.val =
          MergedVal(calc.parts \o [i \in 1..(n * g - k) |-> calc.undef])
     /\ calc.out.val = G_TRUNC(calc.out.wide, k * c)

\* C27 as stated: a requested width that is a multiple of c and not larger
\* than k*c regroups the parts.
C27_RegroupsUpToTotal ==
  (MergeWidened /\ calc.w % calc.parts[1].bits = 0
     /\ calc.w <= Len(calc.parts) * calc.parts[1].bits)
    => Regrouped

\* C27: widening the source type of a merge of k parts of width c to a width
\* w that is a multiple of c and smaller than k*c regroups the parts in order
\* into the fewest merges of w/c parts, pads only the last incomplete group
\* with an undefined value, merges the groups and truncates to k*c bits; the
\* result is the original merge whatever the undefined value is.
C27_RegroupsBelowTotal ==
  (MergeWidened /\ calc.w % calc.parts[1].bits = 0
     /\ calc.w < Len(calc.parts) * calc.parts[1].bits)
    => /\ Regrouped
       /\ calc.out.val = G_MERGE_VALUES(calc.parts)

\* Four parts of one bit were regrouped into two merges of three, the second
\* padded twice with an undefined 1, and the result is the original merge.
C27_Witness ==
  /\ MergeWidened /\ calc.test = "LowerMergeValues"
  /\ Len(calc.parts) = 4 /\ calc.w = 3 /\ calc.undef = Reg(1, 1)
  /\ calc.out.groups[2] = <<calc.parts[4], Reg(1, 1), Reg(1, 1)>>
  /\ calc.out.wide.val >= 2 ^ 4
  /\ calc.out.val = G_MERGE_VALUES(calc.parts)

\* The bits were packed at width w: the OR of the zero-extended parts, each
\* shifted left to its offset, no two overlapping.
Packed ==
  /\ calc.out.path = "pack"
  /\ calc.out.wide.bits = calc.w
  /\ calc.out.wide.val = MergedVal(calc.parts)
  /\ \A i \in 0..(calc.w - 1) :
       Bit(calc.out.wide.val, i) =
         IF i < Len(calc.parts) * calc.parts[1].bits
         THEN Bit(calc.parts[i \div calc.parts[1].bits + 1].val,
                  i % calc.parts[1].bits)
         ELSE 0

\* C28: when the requested source width w exceeds the total width k*c,
\* widening a merge produces the OR of the zero-extended parts shifted left by
\* i*c at width w and truncates it to k*c bits; when the result is a pointer
\* of width w the OR is converted with inttoptr; either way the result is the
\* original merge for all part values.
C28_PacksAboveTotal ==
  /\ (MergeWidened /\ calc.w > Len(calc.parts) * calc.parts[1].bits) =>
       /\ Packed
       /\ calc.out.val =
            G_TRUNC(calc.out.wide, Len(calc.parts) * calc.parts[1].bits)
       /\ calc.out.val = G_MERGE_VALUES(calc.parts)
  /\ (MergeWidened /\ calc.test = "WidenScalarMergeValuesPointer") =>
       /\ Packed
       /\ calc.out.val = G_INTTOPTR(calc.out.wide)
       /\ calc.out.val = G_INTTOPTR(G_MERGE_VALUES(calc.parts))

\* Two parts of three bits, 5 and 6, were packed at twice the total width.
C28_Witness ==
  /\ MergeWidened /\ calc.test = "LowerMergeValues"
  /\ calc.parts = <<Reg(3, 5), Reg(3, 6)>> /\ calc.w = 12
  /\ calc.out.wide = Reg(12, 53) /\ calc.out.val = Reg(6, 53)

\* The low k bits of x read as a signed number, at x's width.
SignExtendInReg(x, k) ==
  LET low == x.val % 2 ^ k
      signed == IF low >= 2 ^ (k - 1) THEN low - 2 ^ k ELSE low
  IN Reg(x.bits, signed % 2 ^ x.bits)

\* C29: widening G_SEXT_INREG(x, k) from width W to W' yields the truncation
\* of the wide G_SEXT_INREG, with the same k, of the any-extended x, and for
\* every W-bit x and every k <= W this is sext_inreg_W(x, k) whatever the
\* any-extend puts above bit W - 1.
C29_WidenedSextInregIsNative ==
  Widened("WidenSEXTINREG") =>
    /\ calc.out.imm = calc.k
    /\ G_TRUNC(calc.out.ext, calc.x.bits) = calc.x
    /\ calc.out.val =
         G_TRUNC(G_SEXT_INREG(calc.out.ext, calc.k), calc.x.bits)
    /\ calc.out.val = G_SEXT_INREG(calc.x, calc.k)
    /\ calc.out.val = SignExtendInReg(calc.x, calc.k)

\* x = 2 at s3 was any-extended to s6 with all ones above, and k = 2: the
\* result is 6.
C29_Witness ==
  /\ Widened("WidenSEXTINREG")
  /\ calc.x = Reg(3, 2) /\ calc.k = 2 /\ calc.out.ext = Reg(6, 58)
  /\ calc.out.val = Reg(3, 6)

\* The G_SEXT_INREG of a narrowing test has been narrowed.
Narrowed ==
  calc.test \in {"NarrowSEXTINREG", "NarrowSEXTINREG2"} /\ ~calc.built

C31_LoweredSextInregIsNative ==
  Lowered("LowerSEXTINREG") =>
    LET W == calc.x.bits
        amt == G_CONSTANT(W, W - calc.k)
    IN /\ calc.out.res = "Legalized"
       /\ calc.out.seq = <<"G_CONSTANT", "G_SHL", "G_ASHR">>
       /\ calc.out.cst.val = W - calc.k
       /\ calc.out.val = G_ASHR(G_SHL(calc.x, amt), amt)
       /\ calc.out.val = SignExtendInReg(calc.x, calc.k)
       /\ calc.out.val = G_SEXT_INREG(calc.x, calc.k)

\* x = 23 at s8 with k = 3: both shifts are by 5 and the result is 255.
C31_Witness ==
  /\ Lowered("LowerSEXTINREG")
  /\ calc.x = Reg(8, 23) /\ calc.k = 3
  /\ calc.out.cst = Reg(8, 5) /\ calc.out.val = Reg(8, 255)

\* C32: fewerElementsVector on a lane-wise binary operation over an L-lane
\* vector with slice size s emits, in increasing bit-offset order, for each
\* slice an extract of each input at the offset, the operation on the slice
\* and an insert of the slice result into the accumulated result at the same
\* offset; when s does not divide L the last slice is the narrower remainder
\* (a scalar for a single lane) at the tail offset; the slices cover every
\* lane exactly once, so the result is the operation on every lane.
C32_SlicesCoverEveryLaneOnce ==
  Lowered("FewerElementsAnd") =>
    LET L == Len(calc.Op0)
        e == calc.Op0[1].bits
        s == calc.s
        seq == calc.out.seq
        m == Len(seq) \div 4
        lanesOf(j) == seq[4 * j].ty.lanes
        offOf(j) == seq[4 * j].off
    IN /\ Len(seq) = 4 * m /\ m * s >= L /\ (m - 1) * s < L
       /\ \A j \in 1..m :
            /\ seq[4 * j - 3].opc = "G_EXTRACT" /\ seq[4 * j - 3].src = "Op0"
            /\ seq[4 * j - 2].opc = "G_EXTRACT" /\ seq[4 * j - 2].src = "Op1"
            /\ seq[4 * j - 1].opc = "G_AND"
            /\ seq[4 * j].opc = "G_INSERT"
            /\ \A i \in 1..3 : /\ seq[4 * j - i].off = offOf(j)
                               /\ seq[4 * j - i].ty = seq[4 * j].ty
            /\ offOf(j) = (j - 1) * s * e
            /\ j < m => lanesOf(j) = s
            /\ j = m => lanesOf(j) = L - (m - 1) * s
            /\ seq[4 * j].ty.vector = (lanesOf(j) > 1)
       /\ \A j \in 1..(m - 1) : offOf(j) < offOf(j + 1)
       /\ \A lane \in 0..(L - 1) :
            Cardinality({j \in 1..m :
                           /\ offOf(j) <= lane * e
                           /\ lane * e < offOf(j) + lanesOf(j) * e}) = 1
       /\ calc.out.val = G_AND_lanes(calc.Op0, calc.Op1)
       /\ (L = 5 /\ s = 2) =>
            /\ <<offOf(1), offOf(2), offOf(3)>> = <<0, 2 * e, 4 * e>>
            /\ ~seq[12].ty.vector

\* A vector of five lanes was split by two: offsets 0, 2 and 4 lanes, the last
\* slice a scalar.
C32_Witness ==
  /\ Lowered("FewerElementsAnd")
  /\ Len(calc.Op0) = 5 /\ calc.s = 2
  /\ Len(calc.out.seq) = 12
  /\ calc.out.seq[12] = [opc |-> "G_INSERT", src |-> "acc", off |-> 4,
                         ty |-> SliceTy(1, 1)]
  /\ calc.Op0[5] = Reg(1, 1) /\ calc.Op1[5] = Reg(1, 1)
  /\ calc.out.val[5] = Reg(1, 1)

\* C34: moreElementsVector on a lane-wise operation concatenates each input
\* with undefined vectors of the input's shape up to the target lane count,
\* performs the operation at the padded width and extracts the original lanes
\* at offset 0; the extracted lanes equal the result of the original operation
\* whatever values the undefined lanes hold.
C34_PaddedLanesDoNotMatter ==
  Lowered("MoreElementsAnd") =>
    LET L == Len(calc.Val0)
        T == L * calc.parts
        seq == calc.out.seq
    IN /\ Len(seq) = 6
       /\ <<seq[1].opc, seq[2].opc, seq[3].opc, seq[4].opc, seq[5].opc, seq[6].opc>>
            = <<"G_IMPLICIT_DEF", "G_CONCAT_VECTORS", "G_IMPLICIT_DEF",
                "G_CONCAT_VECTORS", "G_AND", "G_EXTRACT">>
       /\ seq[1].lanes = L /\ seq[3].lanes = L
       /\ seq[2].lanes = T /\ seq[4].lanes = T /\ seq[5].lanes = T
       /\ seq[2].src = "Val0" /\ seq[4].src = "Val1"
       /\ seq[6].lanes = L /\ seq[6].off = 0
       /\ Len(calc.out.wide) = T
       /\ calc.out.val = G_AND_lanes(calc.Val0, calc.Val1)

\* Two lanes were padded to six with undefined lanes that hold ones where the
\* inputs' AND is zero: the padded result differs beyond the original lanes.
C34_Witness ==
  /\ Lowered("MoreElementsAnd")
  /\ Len(calc.Val0) = 2 /\ calc.parts = 3
  /\ calc.Val0 = <<Reg(1, 1), Reg(1, 0)>> /\ calc.Val1 = <<Reg(1, 1), Reg(1, 1)>>
  /\ calc.out.wide = <<Reg(1, 1), Reg(1, 0), Reg(1, 1), Reg(1, 1), Reg(1, 1), Reg(1, 1)>>
  /\ calc.out.val = <<Reg(1, 1), Reg(1, 0)>>

\* C35: lowering a negation to a subtraction gives the new subtraction exactly
\* the flag set of the negation being lowered; flags carried by the instruction
\* that produces the negation's operand are never copied onto it, and that
\* producer keeps its own flags unchanged.
C35_FSubTakesFlagsOfFNeg ==
  Lowered("LowerFNEG") =>
    /\ Len(calc.out) = 3
    /\ calc.out[3].opc = "G_FSUB"
    /\ calc.out[3].flags = calc.insts[2].flags
    /\ calc.out[3].src = 1
    /\ calc.out[1] = calc.insts[1]

\* The test's first case: an nsz G_FADD feeds an arcp G_FNEG.
C35_Witness ==
  /\ Lowered("LowerFNEG")
  /\ calc.insts[1] = [opc |-> "G_FADD", flags |-> {"FmNsz"}, src |-> 0]
  /\ calc.insts[2].flags = {"FmArcp"}
  /\ calc.out[3] = [opc |-> "G_FSUB", flags |-> {"FmArcp"}, src |-> 1]
  /\ calc.out[1].flags = {"FmNsz"}

\* The phis of a block other than the one defining PHI_DST and the slice
\* phis, in order.
OtherPhis(MBB) ==
  SelectSeq(MBB, LAMBDA I : isPHI(I) /\ I.def.name \notin {"PHI_DST", "PHI"})

\* C33: fewerElementsVector on a phi extracts the slices of each incoming value
\* in the corresponding predecessor block before that block's terminator,
\* builds one phi per slice over the same predecessor edges, and inserts the
\* re-assembly of the original value after the last phi of the block;
\* afterwards no non-phi instruction precedes any phi in the block and every
\* other phi of the block is unchanged.
C33_PhiSplitKeepsPhisFirst ==
  Lowered("FewerElementsPhi") =>
    LET m == NumSlices(calc.L, calc.s)
        Old == calc.MF
        New == calc.out
        MI == Old[3][calc.at]
        End == New[3]
        nphi == Cardinality({i \in 1..Len(End) : isPHI(End[i])})
    IN /\ \A p \in 1..2 :
            LET t == FirstTerminator(Old[p])
            IN /\ Len(New[p]) = Len(Old[p]) + m
               /\ SubSeq(New[p], 1, t - 1) = SubSeq(Old[p], 1, t - 1)
               /\ SubSeq(New[p], t + m, Len(New[p])) = SubSeq(Old[p], t, Len(Old[p]))
               /\ \A j \in 1..m :
                    /\ New[p][t - 1 + j].opc = "G_EXTRACT"
                    /\ New[p][t - 1 + j].uses = <<VReg("VAL", p, 0)>>
                    /\ New[p][t - 1 + j].off = (j - 1) * calc.s * calc.e
               /\ FirstTerminator(New[p]) = t + m
       /\ \A j \in 1..m :
            \E i \in 1..nphi :
              /\ End[i].def = VReg("PHI", 0, j)
              /\ End[i].mbbs = MI.mbbs
              /\ \A k \in 1..Len(MI.mbbs) :
                   End[i].uses[k] = VReg("EXTRACT", MI.mbbs[k], j)
       /\ \A i \in 1..Len(End) : End[i] # MI
       /\ \A i \in 1..Len(End) : isPHI(End[i]) <=> i <= nphi
       /\ nphi = Cardinality({i \in 1..Len(Old[3]) : isPHI(Old[3][i])}) - 1 + m
       /\ OtherPhis(End) = OtherPhis(Old[3])
       /\ End[nphi + 1].opc = "G_IMPLICIT_DEF"
       /\ \A j \in 1..m :
            /\ End[nphi + 1 + j].opc = "G_INSERT"
            /\ End[nphi + 1 + j].uses[2] = VReg("PHI", 0, j)
            /\ End[nphi + 1 + j].off = (j - 1) * calc.s * calc.e
       /\ End[nphi + 1 + m].def = MI.def
       /\ SubSeq(End, nphi + m + 2, Len(End))
            = SubSeq(Old[3], FirstNonPHI(Old[3]), Len(Old[3]))

\* The test's case: five lanes split by two, another phi after the one that
\* is split, a conditional branch in the first predecessor; the re-assembly
\* starts after the other phi.
C33_Witness ==
  /\ Lowered("FewerElementsPhi")
  /\ calc.L = 5 /\ calc.s = 2 /\ calc.at = 1
  /\ Len(calc.MF[3]) = 3 /\ calc.MF[3][2].def.name = "OTHER_PHI"
  /\ calc.MF[1][3].opc = "G_BRCOND"
  /\ calc.out[1][5].opc = "G_EXTRACT" /\ calc.out[1][6].opc = "G_BRCOND"
  /\ calc.out[3][4].def.name = "OTHER_PHI"
  /\ calc.out[3][5].opc = "G_IMPLICIT_DEF"
  /\ calc.out[3][8].def = VReg("PHI_DST", 0, 0)
  /\ calc.out[3][9].opc = "G_AND"

\* C36: every instruction popped from the artifact list is of artifact kind
\* (the assertion of line 282), also when its opcode was changed in place from
\* an artifact kind to a non-artifact kind while it was on the artifact list.
C36_PoppedFromArtifactListIsArtifact ==
  AtArtPop => isArtifact(kind[Back(ArtifactList)])

\* An instruction that is still attached to a basic block and whose opcode is
\* a pre-isel generic opcode or COPY.
Attached(i) == st[i] = "live" /\ isPreISelGenericOpcodeOrCopy(kind[i])

\* C37: every instruction popped from the real list or the artifact list is
\* still attached to a basic block and is a pre-isel generic opcode or COPY
\* (the assertions of lines 241-243 and 281): an erased instruction never
\* remains a member of a worklist.
C37_WorklistMembersAttached ==
  /\ AtInstPop => Attached(Back(InstList))
  /\ AtArtPop => Attached(Back(ArtifactList))
  /\ \A i \in Members(InstList) \union Members(ArtifactList) : Attached(i)

\* A combine has erased the popped artifact and the artifact that fed it, and
\* the artifact drain goes on with an instruction that is attached.
C37_Witness ==
  /\ ev.a = "Combine"
  /\ Cardinality({i \in Ids : st[i] = "erased"}) >= 2
  /\ AtArtPop
  /\ Attached(Back(ArtifactList))

\* C38: every instruction in the retry list is still attached to the function
\* and occurs there only once when the list is moved back to the artifact
\* list or its first element is reported as the failure; a deferred artifact
\* is neither erased nor deferred a second time while it waits.
C38_DeferredAttachedOnce ==
  /\ NoDuplicates(RetryList)
  /\ \A i \in Members(RetryList) :
       /\ st[i] = "live"
       /\ i \notin Members(InstList)

\* The retry check is reached with two deferred artifacts while an instruction
\* has been erased in the drain.
C38_Witness ==
  /\ AtRetryCheck
  /\ Len(RetryList) >= 2
  /\ \E i \in Ids : st[i] = "erased"

\* C39: runOnMachineFunction returns true whenever a run that ends in Done
\* modified the function, including a run whose only modification is the
\* erasure of trivially dead instructions popped from the worklists.
C39_DoneModifiedReturnsTrue ==
  (pc = "Done" /\ \E i \in Ids : st[i] = "erased") => Changed

\* A step that pops the back of the real list, of the artifact list.
InstPopStep == ev'.a \in {"InstDead", "AlreadyLegal", "Unable", "InPlace", "Replace"}

ArtPopStep == ev'.a \in {"ArtDead", "Combine", "PushBack"}

\* C40: the phases alternate strictly: an artifact is popped only after a
\* real-list drain left the real list empty; once the artifact drain has
\* started it runs until the artifact list is empty even when instructions
\* are pushed onto the real list meanwhile; the real list is then drained
\* completely before any further artifact is popped.
C40_PhasesAlternate ==
  [][/\ ArtPopStep => pc = "ArtLoop" /\ pc' = "ArtLoop"
     /\ InstPopStep => pc = "InstLoop"
     /\ (pc = "InstLoop" /\ pc' = "ArtLoop") => InstList = <<>> /\ InstList' = <<>>
     /\ (pc = "ArtLoop" /\ pc' # "ArtLoop") => ArtifactList = <<>>
     /\ (pc = "ArtLoop" /\ ArtifactList # <<>>) => ArtPopStep
     /\ (pc = "InstLoop" /\ InstList # <<>>) => InstPopStep]_vars

\* The artifact drain goes on while the real list has a member.
C40_Witness ==
  /\ AtArtPop
  /\ InstList # <<>>
  /\ ev.a \in {"ArtDead", "Combine", "PushBack"}

====
